---- MODULE Spec2Model ----
(***************************************************************************)
(* A model of minicons' build core (src/minicons/execution.py): the graph  *)
(* resolver (_traverse_node_graph, _sort_dag), the freshness analysis      *)
(* (Execution.prepare_build), the dirty propagation                        *)
(* (PreparedBuild.get_to_build) and the serial and parallel schedulers     *)
(* (Execution.build_targets, _call_builder, _update_builder_metadata),     *)
(* run against a filesystem and a metadata store that outlive the process. *)
(*                                                                         *)
(* Nodes and builders are named by strings.  A File's on-disk signature is *)
(* its mtime (is_file is constant for a regular file); every write gives   *)
(* the file a new mtime.  A stored signature is a set of <<dep, metadata>> *)
(* pairs; json.dumps/json.loads of such a map of strings to numbers gives  *)
(* back the same map, so a stored row is kept as the set itself.           *)
(***************************************************************************)
EXTENDS Integers, Sequences, FiniteSets, TLC

\* ------------------------------------------------------------------ bounds
\* build_targets runs (processes) in one behaviour
MaxRuns == 3
\* filesystem edits by the user between runs (touch, delete)
MaxEdits == 1
\* builder failures and process kills in one behaviour
MaxFaults == 1
\* the largest value of the 'parallel' option that is tried
MaxParallel == 2
\* the largest value os.cpu_count() returns
MaxCpus == 2
\* register_alias calls in one construct script
MaxAliases == 2
\* items in one list of targets or alias entries
MaxArgs == 2
\* _resolve_builder and side_effect calls in one construct script
MaxCalls == 3
\* entries in one get_targets() result or side_effect argument
MaxTargets == 2

None == "None"

\* ------------------------------------------------------------ the graphs
\* builder.builds -> node.builder, as _resolve_builder / side_effect leave it
BuilderOf(nodes, builds) ==
    [n \in nodes |->
        IF \E b \in DOMAIN builds : \E i \in 1..Len(builds[b]) : builds[b][i] = n
        THEN CHOOSE b \in DOMAIN builds : \E i \in 1..Len(builds[b]) : builds[b][i] = n
        ELSE None]

MkGraph(kind, depends, builds, bdepends, targets) ==
    [kind |-> kind, depends |-> depends, builds |-> builds,
     builder |-> BuilderOf(DOMAIN kind, builds),
     bdepends |-> bdepends, targets |-> targets]

NoDeps(nodes) == [n \in nodes |-> {}]

\* ab <- concat(a, b)
GConcat ==
    MkGraph([n \in {"a", "b", "ab"} |-> "File"],
            NoDeps({"a", "b", "ab"}),
            [b \in {"concat"} |-> <<"ab">>],
            [b \in {"concat"} |-> {"a", "b"}],
            <<"ab">>)

\* A.up <- upperA(a), B.up <- upperB(b), all <- concat(A.up, B.up)
GChain ==
    MkGraph([n \in {"a", "b", "Aup", "Bup", "all"} |-> "File"],
            NoDeps({"a", "b", "Aup", "Bup", "all"}),
            ("upperA" :> <<"Aup">>) @@ ("upperB" :> <<"Bup">>) @@ ("concat" :> <<"all">>),
            ("upperA" :> {"a"}) @@ ("upperB" :> {"b"}) @@ ("concat" :> {"Aup", "Bup"}),
            <<"all">>)

\* one builder with two outputs x, y; z is built from y only
GMulti ==
    MkGraph([n \in {"src", "x", "y", "z"} |-> "File"],
            NoDeps({"src", "x", "y", "z"}),
            ("gen" :> <<"x", "y">>) @@ ("use" :> <<"z">>),
            ("gen" :> {"src"}) @@ ("use" :> {"y"}),
            <<"x", "z">>)

\* a FileSet f built by scan; the source w declares a dependency on f;
\* u is built from w, x from u and f
GFileSet ==
    MkGraph(("f" :> "FileSet") @@ [n \in {"w", "u", "x"} |-> "File"],
            ("w" :> {"f"}) @@ NoDeps({"f", "u", "x"}),
            ("scan" :> <<"f">>) @@ ("mku" :> <<"u">>) @@ ("mkx" :> <<"x">>),
            ("scan" :> {}) @@ ("mku" :> {"w"}) @@ ("mkx" :> {"u", "f"}),
            <<"x">>)

\* X.depends = [Y], Y.depends = [X]; T is built from X
GCycle ==
    MkGraph([n \in {"X", "Y", "T"} |-> "File"],
            ("X" :> {"Y"}) @@ ("Y" :> {"X"}) @@ ("T" :> {}),
            [b \in {"mkT"} |-> <<"T">>],
            [b \in {"mkT"} |-> {"X"}],
            <<"T">>)

\* A is built from B and C, B is built from C: C is reachable along two paths
GDiamond ==
    MkGraph([n \in {"A", "B", "C"} |-> "File"],
            NoDeps({"A", "B", "C"}),
            ("mkA" :> <<"A">>) @@ ("mkB" :> <<"B">>),
            ("mkA" :> {"B", "C"}) @@ ("mkB" :> {"C"}),
            <<"A">>)

\* one builder with two outputs of which only x is a target
GSibling ==
    MkGraph([n \in {"s", "x", "y"} |-> "File"],
            NoDeps({"s", "x", "y"}),
            [b \in {"gen"} |-> <<"x", "y">>],
            [b \in {"gen"} |-> {"s"}],
            <<"x">>)

\* a FileSet g without a builder that groups x; top is built from g
GGroup ==
    MkGraph(("g" :> "FileSet") @@ [n \in {"a", "x", "top"} |-> "File"],
            ("g" :> {"x"}) @@ NoDeps({"a", "x", "top"}),
            ("mkx" :> <<"x">>) @@ ("pack" :> <<"top">>),
            ("mkx" :> {"a"}) @@ ("pack" :> {"g"}),
            <<"top">>)

\* a source s that declares a dependency on the built file x
GSrcDep ==
    MkGraph([n \in {"a", "x", "s"} |-> "File"],
            ("s" :> {"x"}) @@ NoDeps({"a", "x"}),
            [b \in {"mkx"} |-> <<"x">>],
            [b \in {"mkx"} |-> {"a"}],
            <<"s">>)

\* three files without inputs, each with a builder of its own
GWide ==
    MkGraph([n \in {"a", "b", "c"} |-> "File"],
            NoDeps({"a", "b", "c"}),
            ("mka" :> <<"a">>) @@ ("mkb" :> <<"b">>) @@ ("mkc" :> <<"c">>),
            [b \in {"mka", "mkb", "mkc"} |-> {}],
            <<"a", "b", "c">>)

Graphs == {GConcat, GChain, GMulti, GFileSet, GCycle, GDiamond, GSibling, GGroup,
           GSrcDep, GWide}

VARIABLES
    graph,          \* the registered nodes and builders (fixed during builds)
    aliases,        \* Execution.aliases: alias -> list of nodes
    reg,            \* builder registration: Entry.builder, Builder.builds, Execution.builders
    exists,         \* the filesystem: which Entry paths exist
    mtime,          \* the filesystem: the mtime of each Entry path
    metadata_db,    \* the file_metadata table: path -> stored signature
    pc,             \* where the build process is
    prepared_build, \* the PreparedBuild in hand
    opts,           \* build_targets' dry_run and parallel arguments
    to_build,       \* build_targets' to_build
    idx,            \* serial loop: position in ordered_nodes
    built_nodes,    \* serial loop: built_nodes
    metadata_cache, \* build_targets' metadata_cache
    edges,          \* parallel scheduler: the pruned copy of the edges
    ready_to_build, \* parallel scheduler: ready_to_build
    futures,        \* parallel scheduler: the builders whose future is in 'futures'
    done,           \* parallel scheduler: the futures wait() returned, still to process
    fstate,         \* the executor: the state of each submitted future
    queue,          \* the executor: its work queue, in submission order
    error,          \* the exception that ended the run, or None
    runs, edits, faults,   \* how much of each bound is used
    hist            \* history (observations only; the program never reads it)

parvars == <<edges, ready_to_build, futures, done, fstate, queue>>

vars == <<graph, aliases, reg, exists, mtime, metadata_db, pc, prepared_build, opts, to_build,
          idx, built_nodes, metadata_cache, parvars, error, runs, edits, faults, hist>>

\* ------------------------------------------------------- node model
Nodes == DOMAIN graph.kind
Builders == DOMAIN graph.builds
IsEntry(n) == graph.kind[n] # "FileSet"
Entries == {n \in Nodes : IsEntry(n)}
builder(n) == graph.builder[n]
depends(n) == graph.depends[n]

Range(s) == {s[i] : i \in 1..Len(s)}
builds(b) == Range(graph.builds[b])
EntryOutputs(b) == {e \in builds(b) : IsEntry(e)}

RECURSIVE Perms(_)
\* every order in which a Python set can be iterated
Perms(S) ==
    IF S = {} THEN {<<>>}
    ELSE UNION {{<<x>> \o p : p \in Perms(S \ {x})} : x \in S}

Last(s) == s[Len(s)]
Front(s) == SubSeq(s, 1, Len(s) - 1)

\* ------------------------------------------------ filesystem and store
\* Entry.get_metadata: the signature of the path as it is on disk
get_metadata(e) == IF exists[e] THEN mtime[e] ELSE 0

\* Execution._metadata_signature
metadata_signature(metadata, nodes) == {<<e, metadata[e]>> : e \in nodes}

\* Execution._get_metadata: the stored row, None when there is no row
HasRow(e) == e \in DOMAIN metadata_db

\* Execution._set_metadata: INSERT OR REPLACE
set_metadata(db, e, sig) == [x \in DOMAIN db \cup {e} |-> IF x = e THEN sig ELSE db[x]]

\* --------------------------------------------------- _traverse_node_graph
\* dependencies that leave out the depends of the builder's other outputs
Dependencies_NoSiblings(visiting) ==
    depends(visiting) \cup
    (IF builder(visiting) # None THEN graph.bdepends[builder(visiting)] ELSE {})

\* the dependencies of one visited node
Dependencies(visiting) ==
    depends(visiting) \cup
    (IF builder(visiting) # None
     THEN graph.bdepends[builder(visiting)]
          \cup UNION {depends(sibling) : sibling \in builds(builder(visiting))}
     ELSE {})

RECURSIVE Traverse(_, _, _)
\* the while loop: every list reachable_entries the loop can end with, over the
\* iteration orders of the set 'dependencies'
Traverse(to_visit, seen, reachable_entries) ==
    IF to_visit = <<>> THEN {reachable_entries}
    ELSE LET visiting == Last(to_visit)
             seen2 == seen \cup {visiting}
             new == {dep \in Dependencies(visiting) : dep \notin seen2}
         IN  UNION {Traverse(Front(to_visit) \o p, seen2,
                             Append(reachable_entries, visiting)) : p \in Perms(new)}

\* the lists of reachable nodes _traverse_node_graph can return
traverse_nodes(targets) == Traverse(targets, {}, <<>>)

\* the edges _traverse_node_graph returns for that list (read as sets: every
\* reader of edges[n] builds a set from it or only tests membership)
traverse_edges(all_nodes) == [n \in Range(all_nodes) |-> Dependencies(n)]

\* ------------------------------------------------------------- _sort_dag
reverse_of(es, node) == {m \in DOMAIN es : node \in es[m]}

RECURSIVE SortLoop(_, _, _)
\* the while loop over leaf_nodes: every (sorted_nodes, edges) it can end with
SortLoop(sorted_nodes, leaf_nodes, es) ==
    IF leaf_nodes = <<>> THEN {[sorted |-> sorted_nodes, edges |-> es]}
    ELSE LET node == Last(leaf_nodes)
             es2 == [m \in DOMAIN es |-> es[m] \ {node}]
             newleaf == {m \in reverse_of(es, node) : es2[m] = {}}
         IN  UNION {SortLoop(Append(sorted_nodes, node), Front(leaf_nodes) \o p, es2)
                    : p \in Perms(newleaf)}

\* a selection that takes every node for a leaf
SelectLeaves_All(nodes, es) == nodes

\* [n for n in nodes if not edges.get(n)]
SelectLeaves(nodes, es) == SelectSeq(nodes, LAMBDA n : es[n] = {})

\* the outcomes of _sort_dag: a sorted list, or the edges left over (a cycle)
sort_dag(nodes, es) ==
    {IF \E m \in DOMAIN r.edges : r.edges[m] # {}
     THEN [ok |-> FALSE, sorted |-> <<>>,
           msg |-> {e \in (DOMAIN r.edges) \X (DOMAIN r.edges) : e[2] \in r.edges[e[1]]}]
     ELSE [ok |-> TRUE, sorted |-> r.sorted, msg |-> {}]
     : r \in SortLoop(<<>>, SelectLeaves(nodes, es), es)}

\* ------------------------------------------------ PreparedBuild.get_to_build
RECURSIVE Downward(_, _, _)
\* the downward pass, from position i on
Downward(p, i, tb) ==
    IF i > Len(p.ordered_nodes) THEN tb
    ELSE LET node == p.ordered_nodes[i]
         IN  Downward(p, i + 1,
                      IF p.edges[node] \cap tb # {} THEN tb \cup {node} ELSE tb)

\* an upward pass that adds no FileSet
Upward_NoFileSets(p, i, tb) == tb

RECURSIVE Upward_Forward(_, _, _)
\* an upward pass that walks ordered_nodes from its first node to its last
Upward_Forward(p, i, tb) ==
    IF i < 1 THEN tb
    ELSE LET node == p.ordered_nodes[Len(p.ordered_nodes) - i + 1]
         IN  Upward_Forward(p, i - 1,
                            IF node \in tb
                            THEN tb \cup {d \in p.edges[node] : ~IsEntry(d)}
                            ELSE tb)

RECURSIVE Upward(_, _, _)
\* the upward pass, from position i down to 1
Upward(p, i, tb) ==
    IF i < 1 THEN tb
    ELSE LET node == p.ordered_nodes[i]
         IN  Upward(p, i - 1,
                    IF node \in tb
                    THEN tb \cup {d \in p.edges[node] : ~IsEntry(d)}
                    ELSE tb)

get_to_build(p) ==
    Upward(p, Len(p.ordered_nodes), Downward(p, 1, p.out_of_date))

\* ------------------------------------------------- Execution.prepare_build
RECURSIVE Closure(_, _)
\* every node reached from the set S along the edges es
Closure(S, es) ==
    LET next == S \cup UNION {es[v] : v \in S}
    IN  IF next = S THEN S ELSE Closure(next, es)

\* all_dependencies[node]: the Entries among node's ancestors
all_dependencies(node, es) == {v \in Closure(es[node], es) : IsEntry(v)}

\* a check that also asks for the paths that a builder will create
MissingInputs_BuiltToo(all_nodes) ==
    {e \in Range(all_nodes) : IsEntry(e) /\ ~exists[e]}

\* a check that finds no path missing
MissingInputs_Unchecked(all_nodes) == {}

\* the Entries without a builder whose path is missing
MissingInputs(all_nodes) ==
    {e \in Range(all_nodes) : IsEntry(e) /\ builder(e) = None /\ ~exists[e]}

CurrentMetadata == [e \in Entries |-> get_metadata(e)]

\* a freshness check that does not look whether the node's path exists
Outdated_ExistenceUnchecked(all_nodes, es) ==
    {node \in Range(all_nodes) :
        /\ IsEntry(node)
        /\ builder(node) # None
        /\ \/ ~HasRow(node)
           \/ metadata_db[node] #
                  metadata_signature(CurrentMetadata, all_dependencies(node, es))}

\* a freshness check that compares the stored signature with the signatures
\* of the node's own inputs only, not of its whole ancestor closure
Outdated_DirectInputsOnly(all_nodes, es) ==
    {node \in Range(all_nodes) :
        /\ IsEntry(node)
        /\ builder(node) # None
        /\ \/ ~exists[node]
           \/ ~HasRow(node)
           \/ metadata_db[node] #
                  metadata_signature(CurrentMetadata, {v \in es[node] : IsEntry(v)})}

\* the loop that fills 'outdated'
Outdated(all_nodes, es) ==
    {node \in Range(all_nodes) :
        /\ IsEntry(node)
        /\ builder(node) # None
        /\ \/ ~exists[node]
           \/ ~HasRow(node)
           \/ metadata_db[node] #
                  metadata_signature(CurrentMetadata, all_dependencies(node, es))}

\* the loop that fills 'changed'
Changed(all_nodes, es) ==
    {dep \in Entries :
        \E node \in Outdated(all_nodes, es) :
            /\ exists[node]
            /\ HasRow(node)
            /\ dep \in all_dependencies(node, es)
            /\ {pr \in metadata_db[node] : pr[1] = dep} # {<<dep, get_metadata(dep)>>}}

\* the PreparedBuild for one traversal order and one sort order
MkPrepared(targets, all_nodes, ordered_nodes) ==
    LET es == traverse_edges(all_nodes)
    IN  [ordered_nodes |-> ordered_nodes,
         buildable_entries |->
             {e \in Range(ordered_nodes) : IsEntry(e) /\ builder(e) # None},
         edges |-> es,
         out_of_date |-> Outdated(all_nodes, es),
         changed |-> Changed(all_nodes, es),
         entry_dependencies |-> [n \in Range(all_nodes) |-> all_dependencies(n, es)],
         targets |-> targets,
         extra |-> <<>>]

NoPrepared ==
    [ordered_nodes |-> <<>>, buildable_entries |-> {}, edges |-> <<>>,
     out_of_date |-> {}, changed |-> {}, entry_dependencies |-> <<>>,
     targets |-> <<>>, extra |-> <<>>]

\* ------------------------------------------------ Execution._args_to_nodes
\* an argument that is a Node object, and one that is a string
NodeArg(n) == [kind |-> "Node", val |-> n]
StrArg(s) == [kind |-> "str", val |-> s]

\* the list of Node objects ns as arguments
NodeArgs(ns) == [i \in DOMAIN ns |-> NodeArg(ns[i])]

\* the keys of Execution.entries: the paths of the interned Entry objects
Interned == Entries

RECURSIVE args_to_nodes(_, _)
\* a string that is looked up as a path before it is looked up as an alias
resolve_str_PathFirst(s, al) ==
    IF s \in Interned THEN [nodes |-> <<s>>, error |-> None]
    ELSE IF s \in DOMAIN al THEN args_to_nodes(NodeArgs(al[s]), al)
    ELSE [nodes |-> <<>>, error |-> "KeyError"]

\* 'elif isinstance(args, str)': an alias if one exists, else the path
\* root/args looked up in self.entries
resolve_str(s, al) ==
    IF s \in DOMAIN al THEN args_to_nodes(NodeArgs(al[s]), al)
    ELSE IF s \in Interned THEN [nodes |-> <<s>>, error |-> None]
    ELSE [nodes |-> <<>>, error |-> "KeyError"]

\* list(self._args_to_nodes(args)) for a list args of Node objects and
\* strings, with the aliases al: the nodes in order, or the exception
args_to_nodes(args, al) ==
    IF args = <<>> THEN [nodes |-> <<>>, error |-> None]
    ELSE LET first == IF Head(args).kind = "Node"
                      THEN [nodes |-> <<Head(args).val>>, error |-> None]
                      ELSE resolve_str(Head(args).val, al)
             rest == args_to_nodes(Tail(args), al)
         IN  IF first.error # None THEN [nodes |-> <<>>, error |-> first.error]
             ELSE IF rest.error # None THEN rest
             ELSE [nodes |-> first.nodes \o rest.nodes, error |-> None]

\* --------------------------------------------------- Execution.prepare_build
\* every outcome of prepare_build(targets), targets being a list of nodes: a
\* PreparedBuild or the error raised
prepare_build(targets) ==
    UNION {
        {IF ~s.ok
         THEN [error |-> "DependencyError: cycle", msg |-> s.msg, prepared |-> NoPrepared]
         ELSE IF MissingInputs(all_nodes) # {}
         THEN [error |-> "DependencyError: missing", msg |-> {}, prepared |-> NoPrepared]
         ELSE [error |-> None, msg |-> {}, prepared |-> MkPrepared(targets, all_nodes, s.sorted)]
         : s \in sort_dag(all_nodes, traverse_edges(all_nodes))}
        : all_nodes \in traverse_nodes(targets)}
\* ------------------------------------- Execution._update_builder_metadata
RECURSIVE UpdateLoop(_, _, _, _)
\* the loop over builder.builds from position i: the store and the cache it
\* leaves, and the KeyError of entry_dependencies[built_entry] when it stops
UpdateLoop(bs, i, db, cache) ==
    IF i > Len(bs) THEN [db |-> db, cache |-> cache, error |-> None]
    ELSE IF ~IsEntry(bs[i]) THEN UpdateLoop(bs, i + 1, db, cache)
    ELSE IF bs[i] \notin DOMAIN prepared_build.entry_dependencies
    THEN [db |-> db, cache |-> cache, error |-> "KeyError"]
    ELSE LET deps == prepared_build.entry_dependencies[bs[i]]
             cache2 == [d \in DOMAIN cache \cup deps |->
                           IF d \in DOMAIN cache THEN cache[d] ELSE get_metadata(d)]
         IN  UpdateLoop(bs, i + 1,
                        set_metadata(db, bs[i], metadata_signature(cache2, deps)),
                        cache2)

update_builder_metadata(b) == UpdateLoop(graph.builds[b], 1, metadata_db, metadata_cache)

RECURSIVE SerialUpdate(_, _, _, _, _, _)
\* _update_builder_metadata over the outputs bs from position i, reading the
\* filesystem (ex, mt) instead of the current one
SerialUpdate(bs, i, db, cache, ex, mt) ==
    IF i > Len(bs) THEN [db |-> db, cache |-> cache, error |-> None]
    ELSE IF ~IsEntry(bs[i]) THEN SerialUpdate(bs, i + 1, db, cache, ex, mt)
    ELSE IF bs[i] \notin DOMAIN prepared_build.entry_dependencies
    THEN [db |-> db, cache |-> cache, error |-> "KeyError"]
    ELSE LET deps == prepared_build.entry_dependencies[bs[i]]
             cache2 == [d \in DOMAIN cache \cup deps |->
                           IF d \in DOMAIN cache THEN cache[d]
                           ELSE IF ex[d] THEN mt[d] ELSE 0]
         IN  SerialUpdate(bs, i + 1,
                          set_metadata(db, bs[i], metadata_signature(cache2, deps)),
                          cache2, ex, mt)

RECURSIVE SerialLoop(_, _, _, _, _, _, _, _)
\* the serial loop of build_targets (not a dry run) from position i of
\* ordered_nodes, every build() returning with its outputs written: the
\* error it ends with, the builders it calls and the rows it leaves
SerialLoop(p, tb, i, built, inv, db, cache, fs) ==
    IF i > Len(p.ordered_nodes) THEN [error |-> None, invoked |-> inv, db |-> db]
    ELSE LET node == p.ordered_nodes[i]
         IN  IF ~(node \in tb /\ node \notin built /\ builder(node) # None)
             THEN SerialLoop(p, tb, i + 1, built, inv, db, cache, fs)
             ELSE LET b == builder(node)
                      ex == [e \in Entries |-> e \in EntryOutputs(b) \/ fs.exists[e]]
                      mt == [e \in Entries |-> IF e \in EntryOutputs(b)
                                               THEN fs.mtime[e] + 1 ELSE fs.mtime[e]]
                      r == SerialUpdate(graph.builds[b], 1, db, cache, ex, mt)
                  IN  IF r.error # None
                      THEN [error |-> r.error, invoked |-> Append(inv, b), db |-> r.db]
                      ELSE SerialLoop(p, tb, i + 1, built \cup builds(b), Append(inv, b),
                                      r.db, r.cache, [exists |-> ex, mtime |-> mt])

\* what build_targets(prepared_build=p) does in serial mode on the current
\* filesystem and metadata store when every builder succeeds
SerialBuild(p) ==
    SerialLoop(p, get_to_build(p), 1, {}, <<>>, metadata_db, <<>>,
               [exists |-> exists, mtime |-> mtime])

\* ------------------------------------ registration of builders (__init__.py)
\* the Entry objects and builders of a construct script; d is a Dir
RegEntries == {"f1", "f2", "d"}
RegBuilders == {"b1", "b2"}
IsDir(e) == e = "d"

NoCall == [op |-> "none", b |-> None, entries |-> <<>>]

\* ------------------------------------------- interning of entries (__init__.py)
\* A path is a list of components, a component a pair <<stem, suffix>>; the
\* first component of an absolute path is the anchor "/".
Slash == <<"/", "">>
Root == <<Slash, <<"root", "">>>>
BuildRoot == Root \o <<<<"build", "">>>>

IsAbsolute(path) == path # <<>> /\ Head(path) = Slash

\* Path.joinpath: an absolute argument replaces the base
joinpath(base, path) == IF IsAbsolute(path) THEN path ELSE base \o path

IsPrefix(a, b) == Len(a) <= Len(b) /\ SubSeq(b, 1, Len(a)) = a

\* Environment.get_rel_path(src): the path relative to the directory under
\* the build root when src is below build_root, else relative to root;
\* relative_to raises ValueError for a path outside root. When src lies
\* directly in build_root, index is 0 and parents[index - 1] is the anchor.
get_rel_path(src) ==
    LET s == joinpath(Root, src)
    IN  IF IsPrefix(BuildRoot, s) /\ Len(s) > Len(BuildRoot)
        THEN LET index == Len(s) - 1 - Len(BuildRoot)
                 base == IF index = 0 THEN 1 ELSE Len(s) - index
             IN  [path |-> SubSeq(s, base + 1, Len(s)), error |-> None]
        ELSE IF IsPrefix(Root, s)
        THEN [path |-> SubSeq(s, Len(Root) + 1, Len(s)), error |-> None]
        ELSE [path |-> <<>>, error |-> "ValueError"]

\* Path.with_suffix(new_ext) on the last component
with_suffix(path, new_ext) ==
    [path EXCEPT ![Len(path)] = <<path[Len(path)][1], new_ext>>]

\* Environment.get_build_path(src, build_dir, new_ext)
get_build_path(src, build_dir, new_ext) ==
    LET rel == get_rel_path(src)
        full == joinpath(BuildRoot, build_dir) \o rel.path
    IN  IF rel.error # None \/ rel.path = <<>> THEN [path |-> <<>>, error |-> "ValueError"]
        ELSE [path |-> IF new_ext = None THEN full ELSE with_suffix(full, new_ext),
              error |-> None]

NoReq == [op |-> "none", key |-> <<>>, factory |-> None, ret |-> 0]

\* a create_entry that replaces a stored Entry of the other type
create_entry_Replaces(path, factory, r) ==
    LET key == joinpath(Root, path)
    IN  IF key \in DOMAIN r.entries /\ r.entries[key].type = factory
        THEN [r EXCEPT !.req.key = key, !.req.factory = factory,
                       !.req.ret = r.entries[key].id]
        ELSE [r EXCEPT !.entries = (key :> [type |-> factory, id |-> r.created + 1]) @@ @,
                       !.created = @ + 1,
                       !.req.key = key, !.req.factory = factory,
                       !.req.ret = r.created + 1]

\* Environment.create_entry(path, factory): the stored Entry when the path is
\* interned with that type, TypeError when with another type, else a new
\* Entry stored under the absolute path
create_entry(path, factory, r) ==
    LET key == joinpath(Root, path)
    IN  IF key \in DOMAIN r.entries
        THEN IF r.entries[key].type # factory
             THEN [r EXCEPT !.error = "TypeError",
                            !.req.key = key, !.req.factory = factory, !.req.ret = 0]
             ELSE [r EXCEPT !.req.key = key, !.req.factory = factory,
                            !.req.ret = r.entries[key].id]
        ELSE [r EXCEPT !.entries = (key :> [type |-> factory, id |-> r.created + 1]) @@ @,
                       !.created = @ + 1,
                       !.req.key = key, !.req.factory = factory,
                       !.req.ret = r.created + 1]

\* Entry.derive(build_dir_name, new_ext) of the Entry stored under key
derive(key, build_dir_name, new_ext, r) ==
    LET new_path == get_build_path(key, build_dir_name, new_ext)
    IN  IF new_path.error # None
        THEN [r EXCEPT !.error = new_path.error,
                       !.req.key = <<>>, !.req.factory = r.entries[key].type,
                       !.req.ret = 0]
        ELSE create_entry(new_path.path, r.entries[key].type, r)

NoDep == [target |-> None, source |-> None, is_entry |-> FALSE, items |-> <<>>,
          memo |-> FALSE, ret |-> None]

\* no Entry has a builder, no builder is registered
NoRegistrations ==
    [builder |-> [e \in RegEntries |-> None],
     builds |-> [b \in RegBuilders |-> <<>>],
     builders |-> <<>>,
     error |-> None,
     call |-> NoCall,
     calls |-> 0,
     entries |-> <<>>,     \* Execution.entries: absolute path -> Entry
     created |-> 0,        \* Entry objects constructed so far
     req |-> NoReq,        \* the last file(), dir() or derive() call
     depends |-> [b \in RegBuilders |-> <<>>],   \* Builder.depends
     dep |-> NoDep]        \* the last depends_file() call

RECURSIVE BindEntries_Rebinds(_, _, _, _)
\* a loop that takes every Entry over from its builder
BindEntries_Rebinds(b, entries, i, r) ==
    IF i > Len(entries) THEN r
    ELSE BindEntries_Rebinds(b, entries, i + 1,
                             [r EXCEPT !.builder[entries[i]] = b,
                                       !.builds[b] = Append(@, entries[i])])

RECURSIVE BindEntries(_, _, _, _)
\* 'for entry in entries': raise ValueError if the Entry has another
\* builder, else entry.builder = builder and builder.builds.append(entry)
BindEntries(b, entries, i, r) ==
    IF i > Len(entries) THEN r
    ELSE IF r.builder[entries[i]] # None /\ r.builder[entries[i]] # b
    THEN [r EXCEPT !.error = "ValueError"]
    ELSE BindEntries(b, entries, i + 1,
                     [r EXCEPT !.builder[entries[i]] = b,
                               !.builds[b] = Append(@, entries[i])])

\* Execution._resolve_builder(builder), get_targets() returning targets: one
\* Entry (is_entry) or a list of them
resolve_builder(b, targets, r) ==
    IF b \in DOMAIN r.builders THEN r
    ELSE LET entries == IF targets.is_entry THEN <<>> ELSE targets.items
         IN  IF (\E i \in DOMAIN entries : IsDir(entries[i])) /\ Len(entries) # 1
             THEN [r EXCEPT !.error = "ValueError"]
             ELSE LET r2 == BindEntries(b, entries, 1, r)
                  IN  IF r2.error # None THEN r2
                      ELSE [r2 EXCEPT !.builders = (b :> entries) @@ @]

\* Builder.side_effect(entries), one Entry being taken as a list of one
side_effect(b, entries, r) == BindEntries(b, entries, 1, r)

\* Environment.depends_file(target, source) for a source that is a Builder
\* whose get_targets() returns targets
depends_file(target, source, targets, r) ==
    LET r2 == resolve_builder(source, targets, r)
        b_targets == IF source \in DOMAIN r2.builders THEN r2.builders[source] ELSE <<>>
        files == SelectSeq(b_targets, LAMBDA t : ~IsDir(t))
    IN  IF r2.error # None THEN r2
        ELSE IF Len(files) # 1 THEN [r2 EXCEPT !.error = "ValueError"]
        ELSE [r2 EXCEPT !.depends[target] = Append(@, files[1]),
                        !.dep.ret = files[1]]

\* ------------------------------------------------------------ the process
Stopped == {"idle", "done", "failed", "killed"}

NoOpts == [dry_run |-> FALSE, parallel |-> 1, cpu_count |-> 1]

\* the values of the parallel argument: True, False or a number of workers
ParallelArgs ==
    {[bool |-> TRUE, val |-> 1], [bool |-> TRUE, val |-> 0]}
        \cup {[bool |-> FALSE, val |-> n] : n \in 1..MaxParallel}

\* 'if parallel is True: parallel = os.cpu_count() or 1; elif parallel is
\* False: parallel = 1', os.cpu_count() returning cpus
Workers(parallel, cpus) ==
    IF parallel.bool THEN (IF parallel.val = 1 THEN cpus ELSE 1) ELSE parallel.val

NewHist ==
    [invoked |-> <<>>,        \* builders whose build() was called, this run
     logged |-> <<>>,         \* builders _call_builder logged, this run
     clean |-> FALSE,         \* the last run succeeded (no dry run), no edit since
     was_clean |-> FALSE,     \* ... when this run was prepared
     touched |-> None,        \* the one Entry touched since a fully built state
     was_touched |-> None,    \* ... when this run was prepared
     deleted |-> None,        \* the one Entry deleted since a fully built state
     was_deleted |-> None,    \* ... when this run was prepared
     interrupted |-> {},      \* outputs built but not committed when killed
     was_interrupted |-> {},  \* ... when this run was prepared
     partial |-> {},          \* outputs of a builder whose build() raised
     was_partial |-> {},      \* ... when this run was prepared
     msg |-> {},              \* the edges named by a cycle error
     trigger |-> <<>>,        \* builder -> the node whose turn invoked it
     built |-> {},            \* nodes whose builder's build() has returned
     serial |-> <<>>,         \* SerialBuild of this run's prepared build
     args |-> <<>>,           \* the targets argument of this run
     registered |-> <<>>,     \* alias -> the nodes its entries resolved to
     nested |-> {},           \* the aliases registered with entries naming an alias
     regs |-> 0]              \* register_alias calls so far

Init ==
    /\ graph \in Graphs
    /\ aliases = <<>>
    /\ reg = NoRegistrations
    /\ exists = [e \in Entries |-> builder(e) = None]
    /\ mtime = [e \in Entries |-> 1]
    /\ metadata_db = <<>>
    /\ pc = "idle"
    /\ prepared_build = NoPrepared
    /\ opts = NoOpts
    /\ to_build = {}
    /\ idx = 0
    /\ built_nodes = {}
    /\ metadata_cache = <<>>
    /\ edges = <<>>
    /\ ready_to_build = {}
    /\ futures = {}
    /\ done = {}
    /\ fstate = <<>>
    /\ queue = <<>>
    /\ error = None
    /\ runs = 0
    /\ edits = 0
    /\ faults = 0
    /\ hist = NewHist

\* the process-local state of a process that has not started a build
ResetScheduler ==
    /\ edges' = <<>>
    /\ ready_to_build' = {}
    /\ futures' = {}
    /\ done' = {}
    /\ fstate' = <<>>
    /\ queue' = <<>>

ResetProcess ==
    /\ prepared_build' = NoPrepared
    /\ opts' = NoOpts
    /\ to_build' = {}
    /\ idx' = 0
    /\ built_nodes' = {}
    /\ metadata_cache' = <<>>
    /\ ResetScheduler

\* the targets of the scenario, given as Node objects
Targets == NodeArgs(graph.targets)

\* the construct script calls register_alias(alias, entries)
RegisterAlias(alias, entries) ==
    /\ pc = "idle"
    /\ hist.regs < MaxAliases
    /\ LET r == args_to_nodes(entries, aliases)
       IN  IF r.error # None
           THEN /\ pc' = "failed"
                /\ error' = r.error
                /\ hist' = [hist EXCEPT !.regs = @ + 1]
                /\ UNCHANGED aliases
           ELSE /\ aliases' = (alias :> r.nodes) @@ aliases
                /\ hist' = [hist EXCEPT !.regs = @ + 1,
                                        !.registered = (alias :> r.nodes) @@ @,
                                        !.nested =
                                            IF \E i \in DOMAIN entries :
                                                  /\ entries[i].kind = "str"
                                                  /\ entries[i].val \in DOMAIN aliases
                                            THEN @ \cup {alias} ELSE @ \ {alias}]
                /\ UNCHANGED <<pc, error>>
    /\ UNCHANGED <<graph, reg, exists, mtime, metadata_db, prepared_build, opts,
                   to_build, idx, built_nodes, metadata_cache, parvars, runs, edits,
                   faults>>

\* no reachable Entry is out of date and prepare_build raises nothing
FullyBuilt ==
    \A r \in prepare_build(graph.targets) :
        r.error = None /\ get_to_build(r.prepared) = {}

\* the outcomes of prepare_build(args), args being a list of Node objects
\* and strings: 'target_nodes = list(self._args_to_nodes(targets))' first
prepare_build_args(args) ==
    LET t == args_to_nodes(args, aliases)
    IN  IF t.error # None
        THEN {[error |-> t.error, msg |-> {}, prepared |-> NoPrepared]}
        ELSE prepare_build(t.nodes)

\* a new process calls prepare_build(args)
PrepareBuild(args) ==
    /\ pc \in Stopped
    /\ runs < MaxRuns
    /\ runs' = runs + 1
    /\ \E r \in prepare_build_args(args) :
        /\ prepared_build' = r.prepared
        /\ error' = r.error
        /\ pc' = IF r.error = None THEN "prepared" ELSE "failed"
        /\ hist' = [NewHist EXCEPT !.args = args,
                                   !.registered = hist.registered,
                                   !.nested = hist.nested,
                                   !.regs = hist.regs,
                                   !.was_clean = hist.clean,
                                   !.was_touched = hist.touched,
                                   !.was_deleted = hist.deleted,
                                   !.was_interrupted = hist.interrupted,
                                   !.was_partial = hist.partial,
                                   !.msg = r.msg]
    /\ opts' = NoOpts
    /\ to_build' = {}
    /\ idx' = 0
    /\ built_nodes' = {}
    /\ metadata_cache' = <<>>
    /\ ResetScheduler
    /\ UNCHANGED <<graph, aliases, reg, exists, mtime, metadata_db, edits, faults>>

RECURSIVE Prune(_, _, _)
\* 'Remove from the graph all nodes that don't need building': the loop over
\* ordered_nodes from position i (reverse_edges is kept as the transpose of
\* edges throughout, so only edges is carried)
Prune(es, tb, i) ==
    IF i > Len(prepared_build.ordered_nodes) THEN es
    ELSE LET node == prepared_build.ordered_nodes[i]
         IN  Prune(IF node \in tb
                   THEN es
                   ELSE [m \in DOMAIN es |-> IF m = node THEN {} ELSE es[m] \ {node}],
                   tb, i + 1)

\* build_targets(prepared_build=p, dry_run, parallel) up to the choice of
\* the scheduler; 'All files up to date' returns at once
StartBuild(dry, parallel, cpus, p) ==
    /\ pc = "prepared"
    /\ prepared_build' = p
    /\ opts' = [dry_run |-> dry, parallel |-> Workers(parallel, cpus), cpu_count |-> cpus]
    /\ to_build' = get_to_build(p)
    /\ hist' = [hist EXCEPT !.clean = (to_build' = {}) /\ ~dry,
                            !.serial = SerialBuild(p)]
    /\ idx' = IF to_build' # {} /\ ~(opts'.parallel > 1 /\ ~dry) THEN 1 ELSE 0
    /\ pc' = IF to_build' = {} THEN "done"
             ELSE IF opts'.parallel > 1 /\ ~dry THEN "parallel" ELSE "serial"
    /\ edges' = IF to_build' # {} /\ opts'.parallel > 1 /\ ~dry
                THEN Prune(p.edges, to_build', 1) ELSE <<>>
    /\ ready_to_build' = {node \in to_build' : edges' # <<>> /\ edges'[node] = {}}
    /\ UNCHANGED <<graph, aliases, reg, futures, done, fstate, queue, exists, mtime, metadata_db,
                   built_nodes, metadata_cache, error, runs, edits, faults>>

\* a caller of the library passes the PreparedBuild that prepare_build returned
BuildTargets(dry, parallel, cpus) == StartBuild(dry, parallel, cpus, prepared_build)

\* main() with -B after prepare_build: 'prepared.to_build = set(n for n in
\* prepared.ordered_nodes if n.builder is not None)' sets a new attribute of
\* the PreparedBuild, then build_targets(prepared_build=prepared, dry_run=...)
MainAlwaysBuild(dry, cpus) ==
    StartBuild(dry, [bool |-> TRUE, val |-> 0], cpus,
               [prepared_build EXCEPT !.extra =
                   ("to_build" :> {n \in Range(prepared_build.ordered_nodes) :
                                      builder(n) # None})])

\* the positions of the serial loop, from idx on, whose node is to be built
SerialPending ==
    {i \in idx..Len(prepared_build.ordered_nodes) :
        /\ prepared_build.ordered_nodes[i] \in to_build
        /\ prepared_build.ordered_nodes[i] \notin built_nodes
        /\ builder(prepared_build.ordered_nodes[i]) # None}

Min(S) == CHOOSE x \in S : \A y \in S : x <= y

\* a call that leaves the outputs of an earlier build in place
WriteOutputs_KeepsOld(b, W) ==
    /\ exists' = [e \in Entries |-> exists[e] \/ e \in W]
    /\ mtime' = [e \in Entries |-> IF e \in W THEN mtime[e] + 1 ELSE mtime[e]]

\* the filesystem after _call_builder removed the Entry outputs of b and
\* build() wrote the outputs in W
WriteOutputs(b, W) ==
    /\ exists' = [e \in Entries |->
                    IF e \in EntryOutputs(b) THEN e \in W ELSE exists[e]]
    /\ mtime' = [e \in Entries |-> IF e \in W THEN mtime[e] + 1 ELSE mtime[e]]

\* a serial loop that builds and commits whatever dry_run says
SerialCall_DryRunIgnored ==
    /\ pc = "serial"
    /\ SerialPending # {}
    /\ LET i == Min(SerialPending)
           b == builder(prepared_build.ordered_nodes[i])
       IN  /\ idx' = i
           /\ built_nodes' = built_nodes \cup builds(b)
           /\ hist' = [hist EXCEPT
                         !.logged = Append(@, b),
                         !.invoked = Append(@, b),
                         !.trigger = (b :> prepared_build.ordered_nodes[i]) @@ @,
                         !.built = @ \cup builds(b)]
           /\ pc' = "commit"
           /\ WriteOutputs(b, EntryOutputs(b))
    /\ UNCHANGED <<graph, aliases, reg, parvars, metadata_db, prepared_build, opts, to_build,
                   metadata_cache, error, runs, edits, faults>>

\* serial loop: the next node to build; _call_builder returns normally
SerialCall ==
    /\ pc = "serial"
    /\ SerialPending # {}
    /\ LET i == Min(SerialPending)
           b == builder(prepared_build.ordered_nodes[i])
       IN  /\ idx' = i
           /\ built_nodes' = built_nodes \cup builds(b)
           /\ hist' = [hist EXCEPT
                         !.logged = Append(@, b),
                         !.invoked = IF opts.dry_run THEN @ ELSE Append(@, b),
                         !.trigger = (b :> prepared_build.ordered_nodes[i]) @@ @,
                         !.built = IF opts.dry_run THEN @ ELSE @ \cup builds(b)]
           /\ IF opts.dry_run
              THEN /\ pc' = "serial"
                   /\ UNCHANGED <<exists, mtime>>
              ELSE /\ pc' = "commit"
                   /\ WriteOutputs(b, EntryOutputs(b))
    /\ UNCHANGED <<graph, aliases, reg, parvars, metadata_db, prepared_build, opts, to_build,
                   metadata_cache, error, runs, edits, faults>>

\* serial loop: builder.build() raises, leaving the outputs in W on disk
SerialCallRaises ==
    /\ pc = "serial"
    /\ ~opts.dry_run
    /\ SerialPending # {}
    /\ faults < MaxFaults
    /\ faults' = faults + 1
    /\ LET i == Min(SerialPending)
           b == builder(prepared_build.ordered_nodes[i])
       IN  /\ idx' = i
           /\ \E W \in SUBSET EntryOutputs(b) : WriteOutputs(b, W)
           /\ hist' = [hist EXCEPT
                         !.logged = Append(@, b),
                         !.invoked = Append(@, b),
                         !.trigger = (b :> prepared_build.ordered_nodes[i]) @@ @,
                         !.partial = EntryOutputs(b)]
    /\ pc' = "failed"
    /\ error' = "BuildError"
    /\ UNCHANGED <<graph, aliases, reg, parvars, metadata_db, prepared_build, opts, to_build, built_nodes,
                   metadata_cache, runs, edits>>

\* serial loop: build() returns but an Entry output is missing
SerialCallNoOutput ==
    /\ pc = "serial"
    /\ ~opts.dry_run
    /\ SerialPending # {}
    /\ faults < MaxFaults
    /\ faults' = faults + 1
    /\ LET i == Min(SerialPending)
           b == builder(prepared_build.ordered_nodes[i])
       IN  /\ idx' = i
           /\ \E W \in SUBSET EntryOutputs(b) :
                /\ W # EntryOutputs(b)
                /\ WriteOutputs(b, W)
           /\ hist' = [hist EXCEPT
                         !.logged = Append(@, b),
                         !.invoked = Append(@, b),
                         !.trigger = (b :> prepared_build.ordered_nodes[i]) @@ @]
    /\ pc' = "failed"
    /\ error' = "DependencyError: no output"
    /\ UNCHANGED <<graph, aliases, reg, parvars, metadata_db, prepared_build, opts, to_build, built_nodes,
                   metadata_cache, runs, edits>>

\* serial loop: _update_builder_metadata for the builder just called
SerialCommit ==
    /\ pc = "commit"
    /\ LET r == update_builder_metadata(builder(prepared_build.ordered_nodes[idx]))
       IN  /\ metadata_db' = r.db
           /\ metadata_cache' = r.cache
           /\ error' = r.error
           /\ pc' = IF r.error = None THEN "serial" ELSE "failed"
           /\ idx' = IF r.error = None THEN idx + 1 ELSE idx
    /\ UNCHANGED <<graph, aliases, reg, parvars, exists, mtime, prepared_build, opts, to_build, built_nodes,
                   runs, edits, faults, hist>>

\* serial loop: no node is left, build_targets returns
SerialDone ==
    /\ pc = "serial"
    /\ SerialPending = {}
    /\ pc' = "done"
    /\ hist' = [hist EXCEPT !.clean = ~opts.dry_run]
    /\ UNCHANGED <<graph, aliases, reg, parvars, exists, mtime, metadata_db, prepared_build, opts, to_build,
                   idx, built_nodes, metadata_cache, error, runs, edits, faults>>

\* ------------------------------------------------- the parallel scheduler
\* node_built(n): n leaves the pruned graph, children left without edges are ready
node_built(st, n) ==
    LET es2 == [m \in DOMAIN st.edges |-> st.edges[m] \ {n}]
    IN  [edges |-> es2,
         ready |-> st.ready \cup {child \in reverse_of(st.edges, n) : es2[child] = {}}]

RECURSIVE NodesBuilt(_, _, _)
\* 'for node in builder.builds: node_built(node)' from position i
NodesBuilt(st, bs, i) ==
    IF i > Len(bs) THEN st ELSE NodesBuilt(node_built(st, bs[i]), bs, i + 1)

Running == {b \in DOMAIN fstate : fstate[b] = "running"}
Completed == {b \in DOMAIN fstate : fstate[b] \in {"ok", "raised", "nooutput"}}

\* main loop, 'if ready_to_build': pop a node that has no builder
ParPopNoBuilder(node) ==
    /\ pc = "parallel"
    /\ done = {}
    /\ node \in ready_to_build
    /\ builder(node) = None
    /\ IF IsEntry(node)
       THEN /\ pc' = "finally"
            /\ error' = "AssertionError"
            /\ ready_to_build' = ready_to_build \ {node}
            /\ edges' = edges
       ELSE LET st == node_built([edges |-> edges,
                                  ready |-> ready_to_build \ {node}], node)
            IN  /\ edges' = st.edges
                /\ ready_to_build' = st.ready
                /\ UNCHANGED <<pc, error>>
    /\ UNCHANGED <<graph, aliases, reg, exists, mtime, metadata_db, prepared_build, opts, to_build,
                   idx, built_nodes, metadata_cache, futures, done, fstate, queue,
                   runs, edits, faults, hist>>

\* a submit that leaves the sibling outputs in ready_to_build
ParSubmit_KeepsSiblings(node) ==
    /\ pc = "parallel"
    /\ done = {}
    /\ node \in ready_to_build
    /\ builder(node) # None
    /\ LET b == builder(node)
       IN  /\ ready_to_build' = ready_to_build \ {node}
           /\ futures' = futures \cup {b}
           /\ fstate' = (b :> "pending") @@ fstate
           /\ queue' = Append(queue, b)
           /\ hist' = [hist EXCEPT !.trigger = (b :> node) @@ @]
    /\ UNCHANGED <<graph, aliases, reg, exists, mtime, metadata_db, pc, prepared_build, opts,
                   to_build, idx, built_nodes, metadata_cache, edges, done, error,
                   runs, edits, faults>>

\* main loop, 'if ready_to_build': pop a node and submit its builder
ParSubmit(node) ==
    /\ pc = "parallel"
    /\ done = {}
    /\ node \in ready_to_build
    /\ builder(node) # None
    /\ LET b == builder(node)
       IN  /\ ready_to_build' = (ready_to_build \ {node}) \ builds(b)
           /\ futures' = futures \cup {b}
           /\ fstate' = (b :> "pending") @@ fstate
           /\ queue' = Append(queue, b)
           /\ hist' = [hist EXCEPT !.trigger = (b :> node) @@ @]
    /\ UNCHANGED <<graph, aliases, reg, exists, mtime, metadata_db, pc, prepared_build, opts,
                   to_build, idx, built_nodes, metadata_cache, edges, done, error,
                   runs, edits, faults>>

\* a pool that starts every queued job at once
WorkerStart_Unbounded ==
    /\ pc \in {"parallel", "finally"}
    /\ queue # <<>>
    /\ LET b == Head(queue)
       IN  /\ fstate' = [fstate EXCEPT ![b] = "running"]
           /\ exists' = [e \in Entries |-> exists[e] /\ e \notin EntryOutputs(b)]
           /\ hist' = [hist EXCEPT !.logged = Append(@, b), !.invoked = Append(@, b)]
    /\ queue' = Tail(queue)
    /\ UNCHANGED <<graph, aliases, reg, mtime, metadata_db, pc, prepared_build, opts, to_build, idx,
                   built_nodes, metadata_cache, edges, ready_to_build, futures, done,
                   error, runs, edits, faults>>

\* a pool thread takes the next work item: _call_builder removes and prepares
\* the Entry outputs and calls build()
WorkerStart ==
    /\ pc \in {"parallel", "finally"}
    /\ queue # <<>>
    /\ Cardinality(Running) < opts.parallel
    /\ LET b == Head(queue)
       IN  /\ fstate' = [fstate EXCEPT ![b] = "running"]
           /\ exists' = [e \in Entries |-> exists[e] /\ e \notin EntryOutputs(b)]
           /\ hist' = [hist EXCEPT !.logged = Append(@, b), !.invoked = Append(@, b)]
    /\ queue' = Tail(queue)
    /\ UNCHANGED <<graph, aliases, reg, mtime, metadata_db, pc, prepared_build, opts, to_build, idx,
                   built_nodes, metadata_cache, edges, ready_to_build, futures, done,
                   error, runs, edits, faults>>

\* build() returns in a pool thread and every Entry output exists
WorkerFinish(b) ==
    /\ pc \in {"parallel", "finally", "shutdown"}
    /\ b \in Running
    /\ fstate' = [fstate EXCEPT ![b] = "ok"]
    /\ WriteOutputs(b, EntryOutputs(b))
    /\ hist' = [hist EXCEPT !.built = @ \cup builds(b)]
    /\ UNCHANGED <<graph, aliases, reg, metadata_db, pc, prepared_build, opts, to_build, idx,
                   built_nodes, metadata_cache, edges, ready_to_build, futures, done,
                   queue, error, runs, edits, faults>>

\* build() raises in a pool thread, leaving the outputs in W on disk
WorkerRaises(b) ==
    /\ pc \in {"parallel", "finally", "shutdown"}
    /\ b \in Running
    /\ faults < MaxFaults
    /\ faults' = faults + 1
    /\ fstate' = [fstate EXCEPT ![b] = "raised"]
    /\ \E W \in SUBSET EntryOutputs(b) : WriteOutputs(b, W)
    /\ hist' = [hist EXCEPT !.partial = EntryOutputs(b)]
    /\ UNCHANGED <<graph, aliases, reg, metadata_db, pc, prepared_build, opts, to_build, idx,
                   built_nodes, metadata_cache, edges, ready_to_build, futures, done,
                   queue, error, runs, edits>>

\* build() returns in a pool thread but an Entry output is missing
WorkerNoOutput(b) ==
    /\ pc \in {"parallel", "finally", "shutdown"}
    /\ b \in Running
    /\ faults < MaxFaults
    /\ faults' = faults + 1
    /\ fstate' = [fstate EXCEPT ![b] = "nooutput"]
    /\ \E W \in SUBSET EntryOutputs(b) :
        /\ W # EntryOutputs(b)
        /\ WriteOutputs(b, W)
    /\ UNCHANGED <<graph, aliases, reg, metadata_db, pc, prepared_build, opts, to_build, idx,
                   built_nodes, metadata_cache, edges, ready_to_build, futures, done,
                   queue, error, runs, edits, hist>>

\* main loop, 'elif futures': wait(FIRST_COMPLETED) returns the completed futures
ParWait ==
    /\ pc = "parallel"
    /\ ready_to_build = {}
    /\ done = {}
    /\ futures \cap Completed # {}
    /\ done' = futures \cap Completed
    /\ futures' = futures \ Completed
    /\ UNCHANGED <<graph, aliases, reg, exists, mtime, metadata_db, pc, prepared_build, opts,
                   to_build, idx, built_nodes, metadata_cache, edges, ready_to_build,
                   fstate, queue, error, runs, edits, faults, hist>>

\* a main loop that goes on after a builder's exception
ResultRaises_Swallowed(b) ==
    /\ pc' = "parallel"
    /\ error' = IF fstate[b] = "raised" THEN "BuildError"
                ELSE "DependencyError: no output"
    /\ UNCHANGED <<metadata_db, metadata_cache, edges, ready_to_build>>

\* f.result() re-raises the exception of b's _call_builder: the main loop is
\* left for the finally block
ResultRaises(b) ==
    /\ pc' = "finally"
    /\ error' = IF fstate[b] = "raised" THEN "BuildError"
                ELSE "DependencyError: no output"
    /\ UNCHANGED <<metadata_db, metadata_cache, edges, ready_to_build>>

\* a main loop that marks the outputs built without storing their signatures
ParProcess_NoCommit(b) ==
    /\ pc = "parallel"
    /\ b \in done
    /\ done' = done \ {b}
    /\ fstate' = [x \in DOMAIN fstate \ {b} |-> fstate[x]]
    /\ IF fstate[b] # "ok"
       THEN ResultRaises(b)
       ELSE LET st == NodesBuilt([edges |-> edges, ready |-> ready_to_build],
                                 graph.builds[b], 1)
            IN  /\ UNCHANGED <<metadata_db, metadata_cache, error, pc>>
                /\ edges' = st.edges
                /\ ready_to_build' = st.ready
    /\ UNCHANGED <<graph, aliases, reg, exists, mtime, prepared_build, opts, to_build, idx,
                   built_nodes, futures, queue, runs, edits, faults, hist>>

\* 'for f in done': f.result(), _update_builder_metadata, node_built
ParProcess(b) ==
    /\ pc = "parallel"
    /\ b \in done
    /\ done' = done \ {b}
    /\ fstate' = [x \in DOMAIN fstate \ {b} |-> fstate[x]]
    /\ IF fstate[b] # "ok"
       THEN ResultRaises(b)
       ELSE LET r == update_builder_metadata(b)
                st == NodesBuilt([edges |-> edges, ready |-> ready_to_build],
                                 graph.builds[b], 1)
            IN  /\ metadata_db' = r.db
                /\ metadata_cache' = r.cache
                /\ error' = r.error
                /\ pc' = IF r.error = None THEN "parallel" ELSE "finally"
                /\ edges' = IF r.error = None THEN st.edges ELSE edges
                /\ ready_to_build' = IF r.error = None THEN st.ready ELSE ready_to_build
    /\ UNCHANGED <<graph, aliases, reg, exists, mtime, prepared_build, opts, to_build, idx,
                   built_nodes, futures, queue, runs, edits, faults, hist>>

\* main loop, 'else: break'; the executor is shut down and the nodes left with
\* edges are reported
ParBreak ==
    /\ pc = "parallel"
    /\ ready_to_build = {}
    /\ done = {}
    /\ futures = {}
    /\ IF \E n \in DOMAIN edges : edges[n] # {}
       THEN pc' = "failed" /\ error' = "RuntimeError" /\ hist' = hist
       ELSE pc' = "done" /\ error' = error /\ hist' = [hist EXCEPT !.clean = TRUE]
    /\ UNCHANGED <<graph, aliases, reg, exists, mtime, metadata_db, prepared_build, opts, to_build,
                   idx, built_nodes, metadata_cache, parvars, runs, edits, faults>>

\* 'finally: for f in futures: f.cancel()': the futures not yet running are
\* cancelled and leave the work queue
ParCancel ==
    /\ pc = "finally"
    /\ pc' = "shutdown"
    /\ queue' = <<>>
    /\ fstate' = [x \in {y \in DOMAIN fstate : fstate[y] # "pending"} |-> fstate[x]]
    /\ UNCHANGED <<graph, aliases, reg, exists, mtime, metadata_db, prepared_build, opts, to_build,
                   idx, built_nodes, metadata_cache, edges, ready_to_build, futures,
                   done, error, runs, edits, faults, hist>>

\* executor.shutdown() returns once no builder is running; the error propagates
ParShutdown ==
    /\ pc = "shutdown"
    /\ Running = {}
    /\ pc' = "failed"
    /\ UNCHANGED <<graph, aliases, reg, exists, mtime, metadata_db, prepared_build, opts, to_build,
                   idx, built_nodes, metadata_cache, parvars, error, runs, edits,
                   faults, hist>>

\* the Entry outputs that were built and not committed when the process dies
Uncommitted ==
    IF pc = "commit"
    THEN EntryOutputs(builder(prepared_build.ordered_nodes[idx]))
    ELSE UNION {EntryOutputs(b) : b \in {x \in DOMAIN fstate : fstate[x] = "ok"}}

\* the process is killed; the filesystem and the store stay as they are
Kill ==
    /\ pc \in {"prepared", "serial", "commit", "parallel", "finally", "shutdown"}
    /\ faults < MaxFaults
    /\ faults' = faults + 1
    /\ pc' = "killed"
    /\ hist' = [hist EXCEPT !.interrupted = Uncommitted]
    /\ ResetProcess
    /\ UNCHANGED <<graph, aliases, reg, exists, mtime, metadata_db, error, runs, edits>>

\* the user changes the mtime of an existing file between two runs
Touch(e) ==
    /\ pc \in Stopped
    /\ edits < MaxEdits
    /\ runs < MaxRuns
    /\ exists[e]
    /\ edits' = edits + 1
    /\ mtime' = [mtime EXCEPT ![e] = @ + 1]
    /\ hist' = [hist EXCEPT !.clean = FALSE,
                            !.touched = IF FullyBuilt THEN e ELSE None,
                            !.deleted = None,
                            !.interrupted = {},
                            !.partial = {}]
    /\ UNCHANGED <<graph, aliases, reg, parvars, exists, metadata_db, pc, prepared_build, opts, to_build,
                   idx, built_nodes, metadata_cache, error, runs, faults>>

\* the user deletes a file between two runs
Delete(e) ==
    /\ pc \in Stopped
    /\ edits < MaxEdits
    /\ runs < MaxRuns
    /\ exists[e]
    /\ edits' = edits + 1
    /\ exists' = [exists EXCEPT ![e] = FALSE]
    /\ hist' = [hist EXCEPT !.clean = FALSE, !.touched = None,
                            !.deleted = IF FullyBuilt THEN e ELSE None,
                            !.interrupted = {}, !.partial = {}]
    /\ UNCHANGED <<graph, aliases, reg, parvars, mtime, metadata_db, pc, prepared_build, opts, to_build,
                   idx, built_nodes, metadata_cache, error, runs, faults>>

Next ==
    \/ PrepareBuild(Targets)
    \/ \E dry \in BOOLEAN : \E parallel \in ParallelArgs : \E cpus \in 1..MaxCpus :
          BuildTargets(dry, parallel, cpus)
    \/ \E dry \in BOOLEAN : \E cpus \in 1..MaxCpus : MainAlwaysBuild(dry, cpus)
    \/ SerialCall
    \/ SerialCallRaises
    \/ SerialCallNoOutput
    \/ SerialCommit
    \/ SerialDone
    \/ \E node \in Nodes : ParPopNoBuilder(node)
    \/ \E node \in Nodes : ParSubmit(node)
    \/ WorkerStart
    \/ \E b \in Builders : WorkerFinish(b)
    \/ \E b \in Builders : WorkerRaises(b)
    \/ \E b \in Builders : WorkerNoOutput(b)
    \/ ParWait
    \/ \E b \in Builders : ParProcess(b)
    \/ ParBreak
    \/ ParCancel
    \/ ParShutdown
    \/ Kill
    \/ \E e \in Entries : Touch(e)
    \/ \E e \in Entries : Delete(e)

Spec == Init /\ [][Next]_vars

\* ------------------------------------------- every small graph, built cold
\* the nodes of the enumerated graphs
GenNodes == {"p", "q", "r"}

\* r is built by mk from p and is the target; the 'depends' lists of the
\* three files range over every relation on the nodes, self-loops included
GenGraphs ==
    {MkGraph([n \in GenNodes |-> "File"],
             dep,
             [b \in {"mk"} |-> <<"r">>],
             [b \in {"mk"} |-> {"p"}],
             <<"r">>) : dep \in [GenNodes -> SUBSET GenNodes]}

InitGraphs ==
    /\ graph \in GenGraphs
    /\ aliases = <<>>
    /\ reg = NoRegistrations
    /\ exists = [e \in Entries |-> builder(e) = None]
    /\ mtime = [e \in Entries |-> 1]
    /\ metadata_db = <<>>
    /\ pc = "idle"
    /\ prepared_build = NoPrepared
    /\ opts = NoOpts
    /\ to_build = {}
    /\ idx = 0
    /\ built_nodes = {}
    /\ metadata_cache = <<>>
    /\ edges = <<>>
    /\ ready_to_build = {}
    /\ futures = {}
    /\ done = {}
    /\ fstate = <<>>
    /\ queue = <<>>
    /\ error = None
    /\ runs = 0
    /\ edits = 0
    /\ faults = 0
    /\ hist = NewHist

\* serial builds without faults
NextGraphs ==
    \/ PrepareBuild(Targets)
    \/ \E dry \in BOOLEAN : \E cpus \in 1..MaxCpus :
          BuildTargets(dry, [bool |-> TRUE, val |-> 0], cpus)
    \/ SerialCall
    \/ SerialCommit
    \/ SerialDone
    \/ \E e \in Entries : Delete(e)

SpecGraphs == InitGraphs /\ [][NextGraphs]_vars

\* ------------------------------------------- targets and aliases
\* A third specification: a construct script registers aliases, then one
\* serial build is asked for by node, by path or by alias.
AliasNames == {"all", "a"}

\* a name that is no alias and no path of an interned Entry
UnknownNames == {"ghost"}

TargetItems ==
    {NodeArg(n) : n \in Nodes}
        \cup {StrArg(s) : s \in Interned \cup AliasNames \cup UnknownNames}

ArgLists == UNION {[1..k -> TargetItems] : k \in 1..MaxArgs}

InitTargets == Init /\ graph \in {GWide, GMulti}

NextTargets ==
    \/ \E alias \in AliasNames : \E entries \in ArgLists : RegisterAlias(alias, entries)
    \/ \E item \in TargetItems : pc = "idle" /\ PrepareBuild(<<item>>)
    \/ BuildTargets(FALSE, [bool |-> TRUE, val |-> 0], 1)
    \/ SerialCall
    \/ SerialCommit
    \/ SerialDone

SpecTargets == InitTargets /\ [][NextTargets]_vars
\* ------------------------------------------------------------- the claims
\* the nodes the prepared build reaches
Reachable == Range(prepared_build.ordered_nodes)

\* the transitive dependencies of node u along the prepared edges
TransDeps(u) == Closure(prepared_build.edges[u], prepared_build.edges)

\* builder b's build() is called in this step
Starts(b) == hist'.invoked = Append(hist.invoked, b)

\* C1: no builder invocation starts before every node of to_build that is a
\* transitive dependency (along the prepared edges) of the node that triggered
\* it, and that has a builder, has completed.
C1_NoEarlyStart ==
    [][\A b \in Builders :
          Starts(b) =>
             \A v \in to_build \cap TransDeps(hist'.trigger[b]) :
                builder(v) # None => v \in hist.built]_vars

\* C2: a prepare_build that follows a successful build (no dry run) with no
\* filesystem change in between finds nothing out of date and nothing to
\* build, and the run invokes no builder.
C2_SecondBuildIsNoOp ==
    hist.was_clean =>
        /\ pc # "failed"
        /\ pc = "prepared" =>
              prepared_build.out_of_date = {} /\ get_to_build(prepared_build) = {}
        /\ hist.invoked = <<>>
        /\ hist.logged = <<>>

\* the Entries a run built: those in to_build and the outputs of invoked builders
BuiltEntries ==
    {e \in Entries :
        e \in to_build \/ \E b \in Range(hist.invoked) : e \in builds(b)}

\* the Entry ancestors of e in the registered graph
EntryClosure(e) ==
    {v \in Closure(Dependencies(e), [n \in Nodes |-> Dependencies(n)]) : IsEntry(v)}

\* build_targets has just returned normally from a run that was no dry run
BuildSucceeded == pc = "done" /\ hist.clean

\* C3: when build_targets has returned without error (no dry run), every built
\* Entry that has a builder exists and its stored row is the signature of its
\* Entry ancestor closure as it is on disk at the end of the build.
C3_StoredSignatureIsCurrent ==
    BuildSucceeded =>
        \A e \in BuiltEntries :
            builder(e) # None =>
                /\ exists[e]
                /\ HasRow(e)
                /\ metadata_db[e] = metadata_signature(CurrentMetadata, EntryClosure(e))

\* the builders a set of nodes names
BuildersOf(S) == {builder(n) : n \in S} \ {None}

\* the reachable nodes on a dependency path from the target down to I, I included
OnPaths(I) == {n \in Reachable : n = I \/ I \in TransDeps(n)}

\* C4 (as stated): after a touch of one transitive input I of a fully built
\* target, the next build invokes exactly the builders of the nodes on the
\* dependency paths from I to the target, I included.
C4_ExactlyPathBuilders ==
    (/\ BuildSucceeded
     /\ \E t \in Range(prepared_build.targets) : hist.was_touched \in TransDeps(t)) =>
        Range(hist.invoked) = BuildersOf(OnPaths(hist.was_touched))

\* the reachable Entries with a builder whose signature covers I
SignedOver(I) ==
    {n \in Reachable : IsEntry(n) /\ builder(n) # None /\ I \in EntryClosure(n)}

\* those Entries and the reachable nodes that transitively depend on one
Dependents(I) ==
    SignedOver(I) \cup {n \in Reachable : TransDeps(n) \cap SignedOver(I) # {}}

RECURSIVE WithFileSets(_)
\* S and the FileSets its nodes depend on, directly or through FileSets
WithFileSets(S) ==
    LET next == S \cup {d \in UNION {prepared_build.edges[n] : n \in S} : ~IsEntry(d)}
    IN  IF next = S THEN S ELSE WithFileSets(next)

\* C4 (amended): after a touch of one Entry I in a fully built state, the next
\* successful build invokes exactly the builders of the reachable Entries
\* whose signature covers I (I itself is not one of them), of the nodes that
\* transitively depend on such an Entry, and of the FileSets these nodes
\* depend on directly or through FileSets.
C4_ExactlyDependentBuilders ==
    (BuildSucceeded /\ hist.was_touched # None) =>
        Range(hist.invoked) = BuildersOf(WithFileSets(Dependents(hist.was_touched)))

\* a build after a touch that ran a FileSet's builder next to an Entry's
C4_Witness ==
    /\ BuildSucceeded
    /\ hist.was_touched # None
    /\ \E f \in Nodes : ~IsEntry(f) /\ builder(f) \in Range(hist.invoked)
    /\ \E e \in Entries : builder(e) \in Range(hist.invoked)

\* C5: when the previous process was killed after a builder's build() had
\* returned and before the signatures of its outputs were stored, the next
\* prepare_build puts every reachable Entry output of that builder in
\* out_of_date.
C5_InterruptedIsOutOfDate ==
    (pc = "prepared" /\ hist.was_interrupted # {}) =>
        (hist.was_interrupted \cap Reachable) \subseteq prepared_build.out_of_date

\* C6: when a builder's build() raised in the previous run, leaving what it
\* had written on disk, the next prepare_build puts every reachable Entry
\* output of that builder in out_of_date.
C6_PartialIsOutOfDate ==
    (pc = "prepared" /\ hist.was_partial # {}) =>
        (hist.was_partial \cap Reachable) \subseteq prepared_build.out_of_date

\* the errors a builder's _call_builder ends with
BuilderErrors == {"BuildError", "DependencyError: no output"}

\* an exception has left a builder's build() or _call_builder in this run
Escaped ==
    \/ error \in BuilderErrors
    \/ \E b \in DOMAIN fstate : fstate[b] \in {"raised", "nooutput"}

\* C7 (as stated): once an error has escaped a builder, no builder is started
\* and no metadata row is written in the rest of the run.
C7_NothingAfterBuilderError ==
    [][(Escaped /\ runs' = runs) =>
          hist'.invoked = hist.invoked /\ metadata_db' = metadata_db]_vars

\* the stored row of e (None when there is none)
Row(db, e) == IF e \in DOMAIN db THEN db[e] ELSE None

\* C7 (amended): once the scheduler has seen a builder's error (the exception
\* leaves _call_builder in the serial loop, f.result() raises in the parallel
\* main loop) no builder is submitted and no metadata row is written in the
\* rest of the run, and once the futures are cancelled no builder is started;
\* in no step of the run is a row written for an output of a failed builder.
C7_NothingAfterObservedError ==
    [][runs' = runs =>
          /\ error \in BuilderErrors =>
                /\ metadata_db' = metadata_db
                /\ DOMAIN fstate' \subseteq DOMAIN fstate
                /\ pc \in {"shutdown", "failed"} => hist'.invoked = hist.invoked
                /\ (opts.parallel = 1 \/ opts.dry_run) => hist'.invoked = hist.invoked
          /\ \A b \in DOMAIN fstate :
                fstate[b] \in {"raised", "nooutput"} =>
                   \A e \in EntryOutputs(b) : Row(metadata_db', e) = Row(metadata_db, e)]_vars

\* a parallel run ended by a builder's error while another builder had
\* completed and was never processed
C7_Witness ==
    /\ pc = "failed"
    /\ error \in BuilderErrors
    /\ opts.parallel > 1
    /\ \E b \in DOMAIN fstate :
          fstate[b] = "ok" /\ \E e \in EntryOutputs(b) : exists[e] /\ ~HasRow(e)

\* the dependency relation of the registered graph
GraphEdges == [n \in Nodes |-> Dependencies(n)]

\* the nodes the targets reach in the registered graph
FromTargets == Closure(Range(graph.targets), GraphEdges)

\* the edges n -> d of the reachable subgraph that lie on a cycle
CycleEdges ==
    {e \in FromTargets \X FromTargets :
        e[2] \in GraphEdges[e[1]] /\ e[1] \in Closure({e[2]}, GraphEdges)}

\* C8: when the subgraph the targets reach contains a cycle, prepare_build
\* raises the DependencyError for cycles, its message names every edge of the
\* cycle (as source, target) and only edges of the graph, no builder is
\* invoked and no metadata row is written.
C8_CycleIsRefused ==
    (pc # "idle" /\ CycleEdges # {}) =>
        /\ pc = "failed"
        /\ error = "DependencyError: cycle"
        /\ CycleEdges \subseteq hist.msg
        /\ \A e \in hist.msg : e[2] \in GraphEdges[e[1]]
        /\ hist.invoked = <<>>
        /\ hist.logged = <<>>
        /\ metadata_db = <<>>
        /\ \A e \in Entries : exists[e] => builder(e) = None

\* a cycle of two nodes below a target that has a builder was refused
C8_Witness ==
    /\ pc = "failed"
    /\ error = "DependencyError: cycle"
    /\ \E e \in CycleEdges : e[1] # e[2]
    /\ \E t \in Range(graph.targets) : builder(t) # None /\ <<t, t>> \notin CycleEdges

\* C9: in ordered_nodes every dependency d of a node n stands strictly before
\* n, at every position at which d or n appears.
C9_DependenciesFirst ==
    pc = "prepared" =>
        \A i, j \in 1..Len(prepared_build.ordered_nodes) :
            prepared_build.ordered_nodes[i] \in
                prepared_build.edges[prepared_build.ordered_nodes[j]] => i < j

\* the DependencyErrors of the graph analysis
PrepareErrors == {"DependencyError: cycle", "DependencyError: missing"}

DependencyErrors == PrepareErrors \cup {"DependencyError: no output"}

\* C10 (as stated): every DependencyError is raised while no builder has been
\* invoked in the run.
C10_DependencyErrorsBeforeBuilders ==
    error \in DependencyErrors => hist.invoked = <<>> /\ hist.logged = <<>>

\* this step is a call of prepare_build
Prepares == runs' = runs + 1

\* C10 (amended): the DependencyErrors for a cycle and for a missing path
\* without a builder are raised by prepare_build, which invokes no builder,
\* removes no artifact and writes no metadata; a prepare_build that returns
\* has found no cycle and no such missing path; the DependencyError for a
\* missing output is raised in build_targets, after the builder that left the
\* output missing was invoked.
C10_DependencyErrorTiming ==
    [][/\ (error' \in PrepareErrors /\ <<error, runs>>' # <<error, runs>>) =>
             /\ Prepares
             /\ pc' = "failed"
             /\ hist'.invoked = <<>>
             /\ hist'.logged = <<>>
             /\ exists' = exists
             /\ metadata_db' = metadata_db
       /\ (Prepares /\ pc' = "prepared") =>
             /\ CycleEdges = {}
             /\ \A e \in FromTargets :
                   (IsEntry(e) /\ builder(e) = None) => exists[e]
       /\ (error' = "DependencyError: no output" /\ error' # error) =>
             /\ ~Prepares
             /\ \E b \in Range(hist'.invoked) :
                   \E e \in EntryOutputs(b) : ~exists'[e]]_vars

\* prepare_build refused a missing source after an earlier run had built
C10_Witness ==
    /\ pc = "failed"
    /\ error = "DependencyError: missing"
    /\ metadata_db # <<>>
    /\ \E e \in Entries : builder(e) # None /\ exists[e]

\* the reachable nodes that transitively depend on E
DependOn(E) == {n \in Reachable : E \in TransDeps(n)}

\* the previous state was fully built and the one Entry deleted since is a
\* reachable Entry with a builder
DeletedBuilt ==
    /\ hist.was_deleted \in Reachable
    /\ builder(hist.was_deleted) # None

\* C11 (as stated): after the artifact of a built Entry E was deleted in a
\* fully built state, the next build invokes E's builder and otherwise only
\* builders of nodes that transitively depend on E.
C11_OnlyDescendantsRebuilt ==
    (BuildSucceeded /\ DeletedBuilt) =>
        /\ builder(hist.was_deleted) \in Range(hist.invoked)
        /\ Range(hist.invoked) \subseteq
               BuildersOf({hist.was_deleted} \cup DependOn(hist.was_deleted))

\* C11 (amended): after the artifact of a built Entry E was deleted in a fully
\* built state, the next successful build invokes exactly the builders of E,
\* of the nodes that transitively depend on E, and of the FileSets these
\* nodes depend on directly or through FileSets.
C11_DescendantsAndFileSets ==
    (BuildSucceeded /\ DeletedBuilt) =>
        Range(hist.invoked) =
            BuildersOf(WithFileSets({hist.was_deleted} \cup DependOn(hist.was_deleted)))

\* a rebuild after a deletion that also ran the builder of a FileSet
C11_Witness ==
    /\ BuildSucceeded
    /\ DeletedBuilt
    /\ builder(hist.was_deleted) \in Range(hist.invoked)
    /\ \E f \in Nodes : ~IsEntry(f) /\ builder(f) \in Range(hist.invoked)

\* the reachable Entries without a builder whose path does not exist
MissingReachable ==
    {e \in FromTargets : IsEntry(e) /\ builder(e) = None /\ ~exists[e]}

\* C12: a prepare_build that finds a reachable Entry without a builder
\* missing on disk raises a DependencyError (the one for the missing path
\* unless the graph has a cycle, which is reported first), invoking no
\* builder and changing neither the filesystem nor the metadata store; when
\* no such Entry is missing it does not raise the missing-path error.
C12_MissingInputIsRefused ==
    [][Prepares =>
          /\ MissingReachable # {} =>
                /\ pc' = "failed"
                /\ error' \in PrepareErrors
                /\ CycleEdges = {} => error' = "DependencyError: missing"
                /\ hist'.invoked = <<>>
                /\ hist'.logged = <<>>
                /\ exists' = exists
                /\ metadata_db' = metadata_db
          /\ MissingReachable = {} => error' # "DependencyError: missing"]_vars

\* prepare_build refused a build because a source below the targets is gone
C12_Witness ==
    /\ pc = "failed"
    /\ error = "DependencyError: missing"
    /\ hist.invoked = <<>>
    /\ \E e \in MissingReachable : e \notin Range(graph.targets)

\* the builders whose completion the parallel main loop has processed
Processed == {b \in Range(hist.invoked) : b \notin DOMAIN fstate}

\* C13: in one build_targets call no builder is invoked twice and only
\* builders of nodes of to_build are invoked; when the call returns normally
\* the builders invoked are exactly the builders of the nodes of to_build; and
\* one invocation marks every output of the builder as built (serial: all of
\* builder.builds is in built_nodes; parallel: no node still waits for an
\* output of a builder whose completion was processed).
C13_OneInvocationPerBuilder ==
    /\ \A i, j \in 1..Len(hist.invoked) : hist.invoked[i] = hist.invoked[j] => i = j
    /\ pc \notin Stopped => Range(hist.invoked) \subseteq BuildersOf(to_build)
    /\ BuildSucceeded => Range(hist.invoked) = BuildersOf(to_build)
    /\ pc \in {"serial", "commit"} =>
          \A b \in Range(hist.invoked) : builds(b) \subseteq built_nodes
    /\ pc = "parallel" =>
          \A b \in Processed : \A n \in DOMAIN edges : edges[n] \cap builds(b) = {}

\* a parallel build that returned after one invocation of a builder with two
\* outputs that were both to be built
C13_Witness ==
    /\ BuildSucceeded
    /\ opts.parallel > 1
    /\ \E b \in Range(hist.invoked) :
          /\ Cardinality(builds(b)) > 1
          /\ builds(b) \subseteq to_build

\* a build_targets call in parallel mode that ended by itself with no builder
\* failing, on a prepared build that the serial mode builds without error
ParallelEnded ==
    /\ pc \in {"done", "failed"}
    /\ opts.parallel > 1 /\ ~opts.dry_run
    /\ hist.serial # <<>>
    /\ error \notin BuilderErrors
    /\ hist.serial.error = None

\* C14: when every builder succeeds, build_targets with parallel > 1 ends as
\* the serial mode does on the same prepared build: it returns without error,
\* has invoked the same set of builders and leaves the same metadata rows.
C14_ParallelMatchesSerial ==
    ParallelEnded =>
        /\ error = None
        /\ Range(hist.invoked) = Range(hist.serial.invoked)
        /\ metadata_db = hist.serial.db

\* the parallel branch of build_targets is running
InPool == pc \in {"parallel", "finally", "shutdown"}

\* C15 (as stated): in parallel mode the number of builders executing at the
\* same time never exceeds min(parallel option, available CPU count).
C15_AtMostMinOfOptionAndCpus ==
    InPool => Cardinality(Running) <= Min({opts.parallel, opts.cpu_count})

\* C15 (amended): in parallel mode the number of builders executing at the
\* same time never exceeds the pool size, which is the parallel option when
\* it is a number and the CPU count when it is True; the CPU count does not
\* limit a numeric option.
C15_AtMostPoolSize ==
    InPool => /\ opts.parallel > 1
              /\ Cardinality(Running) <= opts.parallel

\* as many builders as the option allows are executing, more than there are CPUs
C15_Witness ==
    /\ InPool
    /\ Cardinality(Running) = opts.parallel
    /\ opts.parallel > opts.cpu_count

\* a build_targets call with dry_run=True is in its loop
DryRunning == opts.dry_run /\ pc \in {"serial", "commit"}

\* C16: with dry_run=True, for any value of parallel, build_targets takes the
\* serial loop and never the pool; no step of it changes a file, calls
\* build() or writes a metadata row; and when it returns, the builders it
\* logged are those that the serial build of the same prepared build, with
\* dry_run=False and every builder succeeding, invokes, in the same order.
C16_DryRunChangesNothing ==
    /\ [](opts.dry_run => ~InPool /\ queue = <<>> /\ hist.invoked = <<>>)
    /\ [][DryRunning =>
            /\ pc' \in {"serial", "done", "killed"}
            /\ exists' = exists /\ mtime' = mtime /\ metadata_db' = metadata_db]_vars
    /\ []((opts.dry_run /\ pc = "done" /\ hist.serial # <<>> /\ hist.serial.error = None)
            => hist.logged = hist.serial.invoked)

\* a dry run asked with parallel > 1 that returned after logging two builders
C16_Witness ==
    /\ opts.dry_run /\ opts.parallel > 1
    /\ pc = "done"
    /\ hist.serial.error = None
    /\ Len(hist.logged) >= 2

\* the build was started by main() with the always-build flag
AlwaysBuild == "to_build" \in DOMAIN prepared_build.extra

\* C17: when -B is given, the build that follows has every reachable node
\* with a builder in to_build and, when it returns (no dry run), has invoked
\* the builder of every such node, also when nothing was out of date.
C17_AlwaysBuildBuildsAll ==
    (AlwaysBuild /\ pc = "done" /\ ~opts.dry_run) =>
        /\ {n \in Reachable : builder(n) # None} \subseteq to_build
        /\ BuildersOf(Reachable) \subseteq Range(hist.invoked)

\* ------------------------------------------- registration of builders
\* A fourth specification: a construct script calls _resolve_builder and
\* side_effect; a caller may catch the ValueError and go on.
EntryLists == UNION {[1..k -> RegEntries] : k \in 1..MaxTargets}

TargetValues ==
    {[is_entry |-> TRUE, items |-> <<e>>] : e \in RegEntries}
        \cup {[is_entry |-> FALSE, items |-> es] : es \in EntryLists}

unreg == <<graph, aliases, exists, mtime, metadata_db, pc, prepared_build, opts,
           to_build, idx, built_nodes, metadata_cache, parvars, error, runs, edits,
           faults, hist>>

ResolveBuilder(b, targets) ==
    /\ reg.calls < MaxCalls
    /\ reg' = [resolve_builder(b, targets, [reg EXCEPT !.error = None])
                  EXCEPT !.calls = @ + 1,
                         !.call = [op |-> IF b \in DOMAIN reg.builders
                                         THEN "memo" ELSE "resolve",
                                   b |-> b,
                                   entries |-> IF targets.is_entry THEN <<>>
                                               ELSE targets.items]]
    /\ UNCHANGED unreg

SideEffect(b, entries) ==
    /\ reg.calls < MaxCalls
    /\ reg' = [side_effect(b, entries, [reg EXCEPT !.error = None])
                  EXCEPT !.calls = @ + 1,
                         !.call = [op |-> "side_effect", b |-> b, entries |-> entries]]
    /\ UNCHANGED unreg

DependsFile(target, source, targets) ==
    /\ reg.calls < MaxCalls
    /\ reg' = [depends_file(target, source, targets,
                            [reg EXCEPT !.error = None,
                                        !.dep = [target |-> target, source |-> source,
                                                 is_entry |-> targets.is_entry,
                                                 items |-> targets.items,
                                                 memo |-> source \in DOMAIN reg.builders,
                                                 ret |-> None]])
                  EXCEPT !.calls = @ + 1,
                         !.call = [op |-> "depends_file", b |-> source,
                                   entries |-> <<>>]]
    /\ UNCHANGED unreg

InitRegister == Init /\ graph = GWide

NextRegister ==
    \/ \E b \in RegBuilders : \E targets \in TargetValues : ResolveBuilder(b, targets)
    \/ \E b \in RegBuilders : \E entries \in EntryLists : SideEffect(b, entries)
    \/ \E target, source \in RegBuilders : \E targets \in TargetValues :
          target # source /\ DependsFile(target, source, targets)

SpecRegister == InitRegister /\ [][NextRegister]_vars

\* ------------------------------------------------ interning of entries
\* A fifth specification: a construct script calls file(), dir() and
\* derive(); a caller may catch an error and go on.
PathArgs ==
    {<<<<"a", ".c">>>>,
     Root \o <<<<"a", ".c">>>>,
     <<<<"sub", "">>, <<"a", ".c">>>>,
     BuildRoot \o <<<<"x", "">>, <<"a", ".c">>>>,
     BuildRoot \o <<<<"obj", "">>, <<"a", ".o">>>>,
     <<Slash, <<"tmp", "">>, <<"a", ".c">>>>}

BuildDirs == {<<<<"obj", "">>>>}
Suffixes == {None, ".o"}

\* env.file(path) / env.dir(path) with a string or Path argument
CreateEntry(path, factory) ==
    /\ reg.calls < MaxCalls
    /\ reg' = [create_entry(path, factory,
                            [reg EXCEPT !.error = None,
                                        !.req.op = IF factory = "File" THEN "file"
                                                   ELSE "dir"])
                  EXCEPT !.calls = @ + 1]
    /\ UNCHANGED unreg

\* entry.derive(build_dir_name, new_ext) on an interned Entry
Derive(key, build_dir_name, new_ext) ==
    /\ reg.calls < MaxCalls
    /\ key \in DOMAIN reg.entries
    /\ reg' = [derive(key, build_dir_name, new_ext,
                      [reg EXCEPT !.error = None, !.req.op = "derive"])
                  EXCEPT !.calls = @ + 1]
    /\ UNCHANGED unreg

InitIntern == Init /\ graph = GWide

NextIntern ==
    \/ \E path \in PathArgs : \E factory \in {"File", "Dir"} : CreateEntry(path, factory)
    \/ \E key \in DOMAIN reg.entries : \E d \in BuildDirs : \E x \in Suffixes :
          Derive(key, d, x)

SpecIntern == InitIntern /\ [][NextIntern]_vars

\* this run was asked for by the name of the registered alias a
ViaAlias(a) == a \in DOMAIN aliases /\ pc # "idle" /\ hist.args = <<StrArg(a)>>

\* C18: for every registered alias, prepare_build of the alias has the same
\* outcomes (PreparedBuild with its nodes, edges, out_of_date, hence to_build;
\* or error) as prepare_build of the list of nodes the alias was registered
\* for, also when its entries named another alias; and a build asked for by
\* the alias is a build of that list: its targets are those nodes and it
\* invokes the builders the serial build of that prepared build invokes.
C18_AliasBuildsItsNodes ==
    \A a \in DOMAIN aliases :
        /\ prepare_build_args(<<StrArg(a)>>) = prepare_build(hist.registered[a])
        /\ (ViaAlias(a) /\ pc \notin {"failed", "killed"}) =>
              /\ prepared_build.targets = hist.registered[a]
              /\ pc = "prepared" =>
                    \E r \in prepare_build(hist.registered[a]) :
                        /\ r.prepared = prepared_build
                        /\ get_to_build(r.prepared) = get_to_build(prepared_build)
              /\ pc = "done" => hist.invoked = hist.serial.invoked

\* a build by an alias that was registered through another alias has
\* returned after invoking the builders of two target nodes
C18_Witness ==
    \E a \in hist.nested :
        /\ ViaAlias(a)
        /\ pc = "done"
        /\ Len(hist.registered[a]) >= 2
        /\ Len(hist.invoked) >= 2

\* the targets argument of this run names something that is neither a
\* registered alias nor the path of an interned Entry
UnknownTarget ==
    \E i \in DOMAIN hist.args :
        /\ hist.args[i].kind = "str"
        /\ hist.args[i].val \notin DOMAIN aliases \cup Interned

\* C19: a target that is neither a registered alias nor the path of an
\* interned Entry makes prepare_build fail with DependencyError ('target not
\* found'), with no builder invoked.
C19_UnknownTargetIsDependencyError ==
    UnknownTarget =>
        /\ pc = "failed"
        /\ error = "DependencyError: target not found"
        /\ hist.invoked = <<>>

\* the last call tried to bind an Entry that another builder has
Conflict ==
    /\ reg.call.op \in {"resolve", "side_effect"}
    /\ \E i \in DOMAIN reg.call.entries :
          reg.builder[reg.call.entries[i]] \notin {None, reg.call.b}

C21_BuildsHasEveryOutputOnce ==
    /\ \A e \in RegEntries :
          reg.builder[e] # None => e \in Range(reg.builds[reg.builder[e]])
    /\ \A b \in RegBuilders :
          \A i, j \in DOMAIN reg.builds[b] :
              reg.builds[b][i] = reg.builds[b][j] => i = j

\* the distinct outputs of builder b
Outputs(b) == Range(reg.builds[b])

\* C22: after any sequence of _resolve_builder and side_effect calls, a
\* builder whose builds contains a Dir has exactly one output, and a call
\* that would give such a builder a second output ends in an error.
C22_DirIsSoleOutput ==
    \A b \in RegBuilders :
        (\E e \in Outputs(b) : IsDir(e)) => Cardinality(Outputs(b)) = 1

\* the step is a file(), dir() or derive() call that reached create_entry
Interns == reg'.calls = reg.calls + 1 /\ reg'.req.op # "none" /\ reg'.req.key # <<>>

\* C23: after any sequence of file(), dir() and derive() calls every key of
\* Execution.entries is an absolute path and no Entry object is stored under
\* two keys; a request for an interned path with the stored type returns the
\* stored instance, with another type raises an error, and both leave
\* entries as it was; a request for a new path stores one new Entry.
C23_EntriesAreInterned ==
    /\ [](\A k \in DOMAIN reg.entries : IsAbsolute(k))
    /\ [](\A k, l \in DOMAIN reg.entries : reg.entries[k].id = reg.entries[l].id => k = l)
    /\ [][Interns =>
            LET k == reg'.req.key
            IN  IF k \in DOMAIN reg.entries
                THEN /\ reg'.entries = reg.entries
                     /\ IF reg.entries[k].type = reg'.req.factory
                        THEN reg'.error = None /\ reg'.req.ret = reg.entries[k].id
                        ELSE reg'.error = "TypeError"
                ELSE /\ reg'.error = None
                     /\ DOMAIN reg'.entries = DOMAIN reg.entries \cup {k}
                     /\ \A l \in DOMAIN reg.entries : reg'.entries[l] = reg.entries[l]
                     /\ reg'.entries[k].type = reg'.req.factory]_vars

\* dir() was refused for a path that file() interned under a relative name
C23_Witness ==
    /\ reg.req.op = "dir"
    /\ reg.error = "TypeError"
    /\ reg.req.key \in DOMAIN reg.entries
    /\ reg.entries[reg.req.key].type = "File"
    /\ Cardinality(DOMAIN reg.entries) >= 2

\* the step is a depends_file(target, source) call on a builder not yet
\* registered
DependsOnBuilder ==
    /\ reg'.calls = reg.calls + 1
    /\ reg'.call.op = "depends_file"
    /\ ~reg'.dep.memo

\* get_targets() of the source of that call gives exactly one File, itself
\* or in a collection of one, and no other builder has that File
OneFile ==
    /\ Len(reg'.dep.items) = 1
    /\ ~IsDir(reg'.dep.items[1])
    /\ reg.builder[reg'.dep.items[1]] \in {None, reg'.dep.source}

\* C24: depends_file(builder, source) for a source builder that outputs
\* exactly one File, returned by get_targets as the File itself or as a
\* collection of one, returns that File, appends it to builder.depends and
\* the File's builder is the source; when the source does not output exactly
\* one File the call raises and builder.depends is unchanged.
C24_DependsFileTakesTheOneFile ==
    [][DependsOnBuilder =>
         LET t == reg'.dep.target
         IN  IF OneFile
             THEN /\ reg'.error = None
                  /\ reg'.dep.ret = reg'.dep.items[1]
                  /\ reg'.depends[t] = Append(reg.depends[t], reg'.dep.items[1])
                  /\ reg'.builder[reg'.dep.items[1]] = reg'.dep.source
             ELSE /\ reg'.error # None
                  /\ reg'.depends = reg.depends]_vars

\* the signature prepare_build compares with the stored one: path of dep ->
\* current signature of dep, over the full Entry ancestor closure of n
CurrentSignature(n) == {<<d, get_metadata(d)>> : d \in EntryClosure(n)}

\* the reachable Entries that have a builder and whose path is missing or
\* whose stored signature (none stored included) is not the current one
StaleEntries ==
    {n \in Reachable :
        /\ IsEntry(n)
        /\ builder(n) # None
        /\ \/ ~exists[n]
           \/ ~HasRow(n)
           \/ metadata_db[n] # CurrentSignature(n)}

\* C25: out_of_date of a prepared build is exactly the set of reachable
\* Entries with a builder whose path does not exist or whose stored signature
\* differs from the current signatures of the Entry ancestor closure; no
\* FileSet and no Entry without a builder is in it; a signature over another
\* set of inputs (one added, one removed) never equals the one over the
\* current inputs; an input touched after a complete build puts every built
\* node below it in out_of_date.
C25_OutOfDateIsStale ==
    pc = "prepared" =>
        /\ prepared_build.out_of_date = StaleEntries
        /\ \A n \in prepared_build.out_of_date : IsEntry(n) /\ builder(n) # None
        /\ \A n \in Reachable : IsEntry(n) /\ builder(n) # None =>
               \A D \in SUBSET Entries :
                   metadata_signature(CurrentMetadata, D) = CurrentSignature(n)
                       => D = prepared_build.entry_dependencies[n]
        /\ \A n \in Reachable :
               /\ IsEntry(n)
               /\ builder(n) # None
               /\ hist.was_touched # None
               /\ hist.was_touched \in EntryClosure(n)
               => n \in prepared_build.out_of_date

C25_Witness ==
    /\ pc = "prepared"
    /\ hist.was_touched # None
    /\ \E n \in prepared_build.out_of_date :
           /\ exists[n]
           /\ HasRow(n)
           /\ hist.was_touched \in EntryClosure(n)
    /\ \E n \in Reachable : IsEntry(n) /\ builder(n) # None /\ n \notin prepared_build.out_of_date

\* the set get_to_build returns for the prepared build in hand
ToBuild == get_to_build(prepared_build)

\* C26: the set returned by get_to_build contains out_of_date and is closed
\* under dependents: a reachable node with a node of its edges in the set is
\* in the set.
C26_ToBuildClosedUnderDependents ==
    pc = "prepared" =>
        /\ prepared_build.out_of_date \subseteq ToBuild
        /\ \A n \in Reachable :
               prepared_build.edges[n] \cap ToBuild # {} => n \in ToBuild

\* ------------------------------------------------------ chains of FileSets
\* a FileSet f2 whose builder depends on the FileSet f1; x is built from f2
GFsChain ==
    MkGraph([n \in {"f1", "f2"} |-> "FileSet"] @@ [n \in {"a", "x"} |-> "File"],
            NoDeps({"a", "f1", "f2", "x"}),
            ("scan1" :> <<"f1">>) @@ ("scan2" :> <<"f2">>) @@ ("mkx" :> <<"x">>),
            ("scan1" :> {"a"}) @@ ("scan2" :> {"f1"}) @@ ("mkx" :> {"f2"}),
            <<"x">>)

\* a FileSet g without a builder that groups the FileSet f built by scan;
\* top is built from g and the source a, side from the source b alone
GFsGroup ==
    MkGraph([n \in {"f", "g"} |-> "FileSet"] @@ [n \in {"a", "b", "top", "side"} |-> "File"],
            ("g" :> {"f"}) @@ NoDeps({"a", "b", "f", "top", "side"}),
            ("scan" :> <<"f">>) @@ ("pack" :> <<"top">>) @@ ("mks" :> <<"side">>),
            ("scan" :> {}) @@ ("pack" :> {"g", "a"}) @@ ("mks" :> {"b"}),
            <<"top", "side">>)

\* gen builds the FileSet fs and the file m inside it; m declares a
\* dependency on d, which mkd builds from a; top is built from fs
GFsMember ==
    MkGraph(("fs" :> "FileSet") @@ [n \in {"a", "d", "m", "top"} |-> "File"],
            ("m" :> {"d"}) @@ NoDeps({"a", "d", "fs", "top"}),
            ("gen" :> <<"fs", "m">>) @@ ("mkd" :> <<"d">>) @@ ("pack" :> <<"top">>),
            ("gen" :> {}) @@ ("mkd" :> {"a"}) @@ ("pack" :> {"fs"}),
            <<"top", "m">>)

InitFileSets ==
    /\ graph \in {GFsChain, GFsGroup, GFsMember}
    /\ aliases = <<>>
    /\ reg = NoRegistrations
    /\ exists = [e \in Entries |-> builder(e) = None]
    /\ mtime = [e \in Entries |-> 1]
    /\ metadata_db = <<>>
    /\ pc = "idle"
    /\ prepared_build = NoPrepared
    /\ opts = NoOpts
    /\ to_build = {}
    /\ idx = 0
    /\ built_nodes = {}
    /\ metadata_cache = <<>>
    /\ edges = <<>>
    /\ ready_to_build = {}
    /\ futures = {}
    /\ done = {}
    /\ fstate = <<>>
    /\ queue = <<>>
    /\ error = None
    /\ runs = 0
    /\ edits = 0
    /\ faults = 0
    /\ hist = NewHist

SpecFileSets == InitFileSets /\ [][Next]_vars

\* the FileSets that node n reaches along edges through FileSets only
FileSetChain(n) ==
    LET fsedges == [v \in Reachable |-> {d \in prepared_build.edges[v] : ~IsEntry(d)}]
    IN  Closure(fsedges[n], fsedges)

\* C27: in the set returned by get_to_build, every FileSet in the edges of a
\* node of the set is in the set, and so is every FileSet reached from a node
\* of the set through a chain of FileSets.
C27_FileSetInputsAreToBuild ==
    pc = "prepared" =>
        /\ \A n \in ToBuild :
               \A d \in prepared_build.edges[n] : ~IsEntry(d) => d \in ToBuild
        /\ \A n \in ToBuild : FileSetChain(n) \subseteq ToBuild

C27_Witness ==
    /\ pc = "prepared"
    /\ hist.was_touched # None
    /\ \E n \in ToBuild :
           /\ IsEntry(n)
           /\ \E d \in prepared_build.edges[n] :
                  /\ ~IsEntry(d)
                  /\ \E d2 \in prepared_build.edges[d] : ~IsEntry(d2) /\ d2 \in ToBuild
    /\ \E n \in Reachable : IsEntry(n) /\ builder(n) # None /\ n \notin ToBuild

\* the nodes reached from the prepared targets along depends, the builder's
\* depends and the depends of the builder's outputs
ReachableFromTargets ==
    LET step(S) == S \cup UNION {Dependencies(v) : v \in S}
        F[k \in 0..Cardinality(Nodes)] ==
            IF k = 0 THEN Range(prepared_build.targets) ELSE step(F[k - 1])
    IN  F[Cardinality(Nodes)]

\* C28: _traverse_node_graph returns exactly the nodes reachable from the
\* targets; edges[n] is n.depends joined with, when n has a builder, the
\* builder's depends and the depends of every output of the builder; no
\* builder is invoked before every node of to_build that has a builder and is
\* in the edges of one of its outputs has been built.
C28_EdgesCarryOutputDepends ==
    /\ [](pc = "prepared" =>
            /\ Reachable = ReachableFromTargets
            /\ \A n \in Reachable :
                   prepared_build.edges[n] =
                       depends(n) \cup
                       (IF builder(n) = None THEN {}
                        ELSE graph.bdepends[builder(n)]
                             \cup {d \in Nodes : \E o \in builds(builder(n)) : d \in depends(o)}))
    /\ [][\A b \in Builders :
            Starts(b) =>
               \A o \in builds(b) : \A v \in to_build \cap Dependencies(o) :
                   builder(v) # None => v \in hist.built]_vars

C28_Witness ==
    /\ \E b \in Range(hist.invoked) : \E o \in builds(b) :
           /\ o # hist.trigger[b]
           /\ \E v \in depends(o) \cap to_build :
                  /\ builder(v) \in Range(hist.invoked)
                  /\ v \notin depends(hist.trigger[b])
    /\ opts.parallel > 1
    /\ ~opts.dry_run

\* _call_builder(b) returns or raises in this step (no dry run): in the serial
\* loop the whole call is one step, in a pool thread it ends a running call
CallEnds(b) ==
    \/ pc = "serial" /\ ~opts.dry_run /\ Starts(b)
    \/ b \in Running /\ b \in Completed'

\* the call of b that ends in this step raises "didn't output"
CallEndsNoOutput(b) ==
    \/ pc = "serial" /\ Starts(b) /\ error' = "DependencyError: no output"
    \/ b \in Running /\ b \in Completed' /\ fstate'[b] = "nooutput"

\* the call of b that ends in this step returns the builder
CallReturns(b) ==
    \/ pc = "serial" /\ Starts(b) /\ pc' = "commit"
    \/ b \in Running /\ b \in Completed' /\ fstate'[b] = "ok"

\* b's missing output has been found and the run has not ended yet
NoOutputSeen(b) ==
    \/ b \in DOMAIN fstate /\ fstate[b] = "nooutput"
    \/ /\ error = "DependencyError: no output"
       /\ pc \in {"finally", "shutdown"}
       /\ b \in Range(hist.invoked)
       /\ \E e \in EntryOutputs(b) : ~exists[e]

\* C29: a builder invocation that is no dry run removes every Entry output
\* before build() runs (while build() runs in a pool thread no output exists;
\* every output that exists when the call ends was written by this call, and
\* an output missing before the call is no error), verifies the outputs after
\* build() (the call returns only when every Entry output exists, and raises
\* the DependencyError when build() returned and one is missing), and after
\* that error no signature is stored for any output of the builder.
C29_RemoveBuildVerify ==
    /\ [](\A b \in Running : \A e \in EntryOutputs(b) : ~exists[e])
    /\ [][\A b \in Builders :
            /\ CallEnds(b) =>
                  \A e \in EntryOutputs(b) : exists'[e] => mtime'[e] = mtime[e] + 1
            /\ CallReturns(b) => \A e \in EntryOutputs(b) : exists'[e]
            /\ CallEndsNoOutput(b) =>
                  /\ \E e \in EntryOutputs(b) : ~exists'[e]
                  /\ metadata_db' = metadata_db
                  /\ pc = "serial" => pc' = "failed"
            /\ NoOutputSeen(b) =>
                  \A e \in EntryOutputs(b) : Row(metadata_db', e) = Row(metadata_db, e)]_vars

C29_Witness ==
    /\ error = "DependencyError: no output"
    /\ pc = "failed"
    /\ \E b \in Range(hist.invoked) :
           /\ \E e \in EntryOutputs(b) : exists[e]
           /\ \E e \in EntryOutputs(b) : ~exists[e] /\ HasRow(e)

\* C30: in the parallel scheduler every node popped from ready_to_build that
\* has no builder is a non-Entry node: 'assert not isinstance(node, Entry)'
\* never fails.
C30_PoppedNodeWithoutBuilderIsNoEntry ==
    /\ [](error # "AssertionError")
    /\ [][\A node \in Nodes :
            (/\ pc = "parallel"
             /\ done = {}
             /\ node \in ready_to_build
             /\ node \notin ready_to_build'
             /\ builder(node) = None) => ~IsEntry(node)]_vars

\* ------------------------------- the schedulers when every builder returns
\* no builder raises or leaves an output out, the process is not killed and
\* no file is edited: prepare_build and build_targets alone
\* gen builds x and y from s; z is built from x and is the only target, so
\* the output y is not reached
GSibUse ==
    MkGraph([n \in {"s", "x", "y", "z"} |-> "File"],
            NoDeps({"s", "x", "y", "z"}),
            ("gen" :> <<"x", "y">>) @@ ("mkz" :> <<"z">>),
            ("gen" :> {"s"}) @@ ("mkz" :> {"x"}),
            <<"z">>)

InitReturns ==
    /\ graph \in {GChain, GMulti, GFileSet, GDiamond, GSibling, GGroup, GSrcDep, GSibUse}
    /\ aliases = <<>>
    /\ reg = NoRegistrations
    /\ exists = [e \in Entries |-> builder(e) = None]
    /\ mtime = [e \in Entries |-> 1]
    /\ metadata_db = <<>>
    /\ pc = "idle"
    /\ prepared_build = NoPrepared
    /\ opts = NoOpts
    /\ to_build = {}
    /\ idx = 0
    /\ built_nodes = {}
    /\ metadata_cache = <<>>
    /\ edges = <<>>
    /\ ready_to_build = {}
    /\ futures = {}
    /\ done = {}
    /\ fstate = <<>>
    /\ queue = <<>>
    /\ error = None
    /\ runs = 0
    /\ edits = 0
    /\ faults = 0
    /\ hist = NewHist

NextReturns ==
    \/ PrepareBuild(Targets)
    \/ \E dry \in BOOLEAN : \E parallel \in ParallelArgs : \E cpus \in 1..MaxCpus :
          BuildTargets(dry, parallel, cpus)
    \/ SerialCall
    \/ SerialCommit
    \/ SerialDone
    \/ \E node \in Nodes : ParPopNoBuilder(node)
    \/ \E node \in Nodes : ParSubmit(node)
    \/ WorkerStart
    \/ \E b \in Builders : WorkerFinish(b)
    \/ ParWait
    \/ \E b \in Builders : ParProcess(b)
    \/ ParBreak
    \/ ParCancel
    \/ ParShutdown

\* the scheduling thread takes its next step, the pool threads run the work
\* they were given, and every build() that was started returns
SchedulerRuns ==
    /\ WF_vars(\E node \in Nodes : ParPopNoBuilder(node))
    /\ WF_vars(\E node \in Nodes : ParSubmit(node))
    /\ WF_vars(WorkerStart)
    /\ WF_vars(\E b \in Builders : WorkerFinish(b))
    /\ WF_vars(ParWait)
    /\ WF_vars(\E b \in Builders : ParProcess(b))
    /\ WF_vars(ParBreak)
    /\ WF_vars(ParCancel)
    /\ WF_vars(ParShutdown)

SpecReturns == InitReturns /\ [][NextReturns]_vars /\ SchedulerRuns

\* the main loop was left with nothing ready, nothing in flight and no node
\* holding pruned in-edges
LoopCompleted ==
    /\ pc \in {"done", "failed"}
    /\ ready_to_build = {}
    /\ futures = {}
    /\ \A n \in DOMAIN edges : edges[n] = {}

\* C31: when every submitted builder returns, the parallel main loop of an
\* acyclic prepared build terminates with the ready set and the in-flight set
\* empty and no node holding pruned in-edges, and the "Nodes didn't execute"
\* RuntimeError is never raised.
C31_ParallelLoopCompletes ==
    /\ [](error # "RuntimeError")
    /\ (pc = "parallel") ~> LoopCompleted

\* builder c is handed to the executor in this step
Submits(c) == c \notin DOMAIN fstate /\ c \in DOMAIN fstate' /\ fstate'[c] = "pending"

\* a step of a pool thread: a call of _call_builder starts or ends
WorkerStep ==
    \E b \in DOMAIN fstate :
        /\ b \in DOMAIN fstate'
        /\ fstate'[b] # fstate[b]
        /\ fstate'[b] \in {"running", "ok", "raised", "nooutput"}

\* the scheduling thread commits builder b, whose future has completed: only
\* rows of b's outputs change and the cache only gains entries
Commits(b) ==
    /\ pc = "parallel"
    /\ b \in done
    /\ fstate[b] = "ok"
    /\ done' = done \ {b}
    /\ \A e \in (DOMAIN metadata_db \cup DOMAIN metadata_db') \ EntryOutputs(b) :
           Row(metadata_db', e) = Row(metadata_db, e)
    /\ \A d \in DOMAIN metadata_cache :
           d \in DOMAIN metadata_cache' /\ metadata_cache'[d] = metadata_cache[d]

\* the signature of Entry d was stored in this run
StoredThisRun(d) ==
    /\ builder(d) \in Processed
    /\ HasRow(d)
    /\ prepared_build.entry_dependencies[d] \subseteq DOMAIN metadata_cache
    /\ metadata_db[d] = metadata_signature(metadata_cache, prepared_build.entry_dependencies[d])

\* C32: in parallel mode the metadata store and metadata_cache change only in
\* a step of the scheduling thread that processes one completed future, never
\* in a step of a pool thread, one builder's commit at a time; and the
\* signatures of a builder's Entry outputs are stored before any builder whose
\* outputs depend on them is submitted.
C32_CommitsInSchedulingThread ==
    [][InPool =>
          /\ WorkerStep => metadata_db' = metadata_db /\ metadata_cache' = metadata_cache
          /\ (metadata_db' # metadata_db \/ metadata_cache' # metadata_cache) =>
                 \/ \E b \in Builders : Commits(b)
                 \/ ~InPool' /\ metadata_db' = metadata_db
          /\ \A c \in Builders :
                Submits(c) =>
                   \A o \in builds(c) \cap Reachable : \A d \in TransDeps(o) \cap to_build :
                       (IsEntry(d) /\ builder(d) \notin {None, c}) => StoredThisRun(d)]_vars

C32_Witness ==
    /\ pc = "parallel"
    /\ \E c \in DOMAIN fstate : \E o \in builds(c) \cap Reachable :
           \E d \in prepared_build.edges[o] \cap to_build :
               IsEntry(d) /\ builder(d) \notin {None, c} /\ StoredThisRun(d)
    /\ \E b \in DOMAIN fstate : fstate[b] = "ok"

\* C33: during a build_targets call that is no dry run, every Entry that
\* _call_builder removes and prepares is in to_build, and no Entry outside
\* to_build is removed from disk or rewritten.
C33_OnlyToBuildIsRewritten ==
    [][/\ \A b \in Builders :
             Starts(b) => EntryOutputs(b) \subseteq to_build
       /\ pc \notin Stopped =>
             \A e \in Entries :
                 (exists'[e] # exists[e] \/ mtime'[e] # mtime[e]) => e \in to_build]_vars

\* the builders handed to the executor whose call has not ended
InFlight == {c \in DOMAIN fstate : fstate[c] \in {"pending", "running"}}

\* C34: in parallel mode no builder executes while another in-flight builder
\* has among its outputs an Entry that is a transitive dependency of an output
\* of the first: no builder reads an input that a concurrently running builder
\* is removing or rewriting.
C34_NoInputBeingRewritten ==
    InPool =>
        \A b \in Running : \A c \in InFlight \ {b} :
            \A o \in builds(b) \cap Reachable :
                EntryOutputs(c) \cap TransDeps(o) = {}

\* the list ns holds every node of S exactly once
ExactlyOnce(ns, S) ==
    /\ Range(ns) = S
    /\ \A i, j \in DOMAIN ns : ns[i] = ns[j] => i = j

\* C35: for an acyclic graph the node list returned by _traverse_node_graph
\* and the sequence returned by _sort_dag hold every reachable node exactly
\* once.
C35_EveryNodeExactlyOnce ==
    pc = "prepared" =>
        /\ \A ns \in traverse_nodes(prepared_build.targets) :
               ExactlyOnce(ns, ReachableFromTargets)
        /\ ExactlyOnce(prepared_build.ordered_nodes, ReachableFromTargets)

\* the step is a _resolve_builder(b) call that raised in its bind loop: the
\* builder was not registered before and the Dir rule let the list through
ResolveRaisesConflict ==
    /\ reg'.calls = reg.calls + 1
    /\ reg'.call.op = "resolve"
    /\ reg'.error # None
    /\ LET entries == reg'.call.entries
       IN  ~((\E i \in DOMAIN entries : IsDir(entries[i])) /\ Len(entries) # 1)

\* C36: when _resolve_builder raises because one of the declared outputs
\* already belongs to a different builder, the registration state is as
\* before the call: no Entry's builder field was set, builder.builds is
\* unchanged and the builder is not recorded in Execution.builders.
C36_RaiseLeavesRegistration ==
    [][ResolveRaisesConflict =>
          /\ reg'.builder = reg.builder
          /\ reg'.builds = reg.builds
          /\ reg'.builders = reg.builders
          /\ reg'.call.b \notin DOMAIN reg'.builders]_vars
====
